---- MODULE Spec2Model ----
(***************************************************************************)
(* Model of the Edit Decision List engine of ai-video-editor:              *)
(*   scripts/edit_decision.py  (EditSegment, EditDecisionList, durations,  *)
(*                              JSON persistence, apply_edl_corrections)   *)
(*   scripts/video_cutter.py   (cut_video and its helpers)                 *)
(*   scripts/edit_analyzer.py  (parse_edit_decisions,                      *)
(*                              merge_adjacent_segments)                   *)
(*   scripts/edit_pipeline.py  (_parse_ai_response, _create_initial_edl,   *)
(*                              _create_edl_from_ai_segments, edit_video,  *)
(*                              _load_transcript, apply_edl_to_video)      *)
(*   scripts/pipeline.py       (process_video)                             *)
(*   scripts/audio_extractor.py (extract_audio)                            *)
(* and of adjust_srt_for_edl, the subtitle remapper, whose source is not   *)
(* in scripts/video_cutter.py.                                             *)
(*                                                                         *)
(* Times are seconds.  The code uses floats; the model uses integers, so   *)
(* every comparison and every difference is exact.                         *)
(* Python lists are sequences; Python's 0-based positions are kept in the  *)
(* data (labels, file names, dictionary keys), so position i of a Python   *)
(* list is element i + 1 of the sequence.                                  *)
(***************************************************************************)
EXTENDS Integers, Sequences, FiniteSets, TLC

VARIABLES
    pc,             \* position of the running call
    edl,            \* the EditDecisionList argument
    video_exists,   \* os.path.exists(video_path)
    output_path,    \* the output_path argument, then the local of cut_video
    tmp_output,     \* TRUE while a file made by tempfile.mkstemp exists
    procs,          \* the subprocess.run calls made so far, in order
    temp_dir,       \* the TemporaryDirectory of the concat strategy
    segment_files,  \* local segment_files of _cut_video_with_concat_demuxer
    corrections,    \* the corrections dict argument, in iteration order
    json_str,       \* the JSON document written by edl_to_json
    transcript,     \* the transcript: the list of TranscriptSegment
    ai_response,    \* the text of the decisions, line by line
    duration,       \* get_video_duration(video_path)
    segments,       \* a list of EditSegment: parsed decisions, merger input
    warnings,       \* the warnings printed to sys.stderr, in order
    edl_exists,     \* os.path.exists(edl_path)
    srt_path,       \* the srt_path argument; None when there is none
    srt_exists,     \* os.path.exists(srt_path)
    srt_lines,      \* the lines of the subtitle file, in order
    subtitles,      \* the entries of the subtitle file: (start, end, text)
    srt_output,     \* the subtitle file at the output path, and its entries
    temp_audio,     \* TRUE while the file made by extract_audio exists
    temp_audio_path,    \* local temp_audio_path of process_video
    subtitle_format,    \* the subtitle_format argument of process_video
    caller,         \* the function that called cut_video; None when there is none
    ret             \* Running, then what the caller of the operation receives

vars == <<pc, edl, video_exists, output_path, tmp_output, procs, temp_dir,
          segment_files, corrections, json_str, transcript, ai_response,
          duration, segments, warnings, edl_exists, srt_path, srt_exists,
          srt_lines, subtitles, srt_output, temp_audio, temp_audio_path,
          subtitle_format, caller, ret>>

\* the variables of the subtitle files, of the temporary audio file and of
\* the callers of cut_video
file_vars == <<edl_exists, srt_path, srt_exists, srt_lines, subtitles,
               srt_output, temp_audio, temp_audio_path, subtitle_format, caller>>

\* no subtitle file has been written
NoSrtOutput == [written |-> FALSE, entries |-> <<>>]

\* no subtitle file is involved and no audio has been extracted
NoFiles ==
    /\ edl_exists = TRUE
    /\ srt_path = "None"
    /\ srt_exists = FALSE
    /\ srt_lines = <<>>
    /\ subtitles = <<>>
    /\ srt_output = NoSrtOutput
    /\ temp_audio = FALSE
    /\ temp_audio_path = "None"
    /\ subtitle_format = "srt"
    /\ caller = "None"

\* the variables of the transcript analysis and of the JSON persistence
analysis_vars == <<json_str, transcript, ai_response, duration, segments,
                   warnings>>

\* no transcript analysis and no persistence is in progress
NoAnalysis ==
    /\ json_str = <<>>
    /\ transcript = <<>>
    /\ ai_response = <<>>
    /\ duration = 0
    /\ segments = <<>>
    /\ warnings = <<>>

(***************************************************************************)
(* Bounds of the model.                                                    *)
(***************************************************************************)
MaxSegs == 7        \* longest EDL handed to cut_video
MaxSmall == 2       \* longest EDL with freely chosen times
MaxTime == 2        \* total_duration of the EDLs with freely chosen times
MaxCorr == 2        \* most keys in a corrections dict

(***************************************************************************)
(* Data model (edit_decision.py).                                          *)
(***************************************************************************)
None == "None"

KEEP == "keep"
REMOVE == "remove"
EditAction == {KEEP, REMOVE}

EditSegment(s, e, a, r, ti) ==
    [start |-> s, end |-> e, action |-> a, reason |-> r,
     transcript_indices |-> ti]

EditDecisionList(src, segs, td) ==
    [source_video |-> src, segments |-> segs, total_duration |-> td]

keep_segments(e) == SelectSeq(e.segments, LAMBDA s : s.action = KEEP)

remove_segments(e) == SelectSeq(e.segments, LAMBDA s : s.action = REMOVE)

SetMin(S) == CHOOSE x \in S : \A y \in S : x <= y

(***************************************************************************)
(* Exceptions and results.  An exception is its class, the fixed part of   *)
(* its message and the text the message embeds.  ret is Running while the  *)
(* call runs, then what the caller receives.                               *)
(***************************************************************************)
Exc(t, m, d) == [type |-> t, msg |-> m, diag |-> d]

NoExc == Exc(None, None, None)

Running == [kind |-> "running", exc |-> NoExc, value |-> None]

Raise(x) == [kind |-> "raise", exc |-> x, value |-> None]

Return(v) == [kind |-> "return", exc |-> NoExc, value |-> v]

Raised(r) == r.kind = "raise"

Returned(r) == r.kind = "return"

(***************************************************************************)
(* _validate_edl_for_cutting.  The result is NoExc when the EDL is         *)
(* accepted and the EDLValidationError raised otherwise.                   *)
(***************************************************************************)
SegmentProblem(seg, total) ==
    IF seg.start < 0 THEN "negative start time"
    ELSE IF seg.start >= seg.end THEN "start time must be before end time"
    ELSE IF seg.end > total THEN "end time exceeds video duration"
    ELSE None

\* sorted(keep_segments, key=lambda s: s.start): a stable sort
RECURSIVE sorted_by_start(_)
sorted_by_start(segs) ==
    IF segs = <<>> THEN <<>>
    ELSE LET n == Len(segs)
             x == segs[n]
             rest == sorted_by_start(SubSeq(segs, 1, n - 1))
             k == Cardinality({i \in 1..(n - 1) : rest[i].start <= x.start})
         IN SubSeq(rest, 1, k) \o <<x>> \o SubSeq(rest, k + 1, n - 1)

\* the overlap test written with >=, which would reject adjacent segments
HasOverlapRejectingAdjacent(segs) ==
    LET sorted_segments == sorted_by_start(segs)
    IN \E i \in 1..(Len(sorted_segments) - 1) :
          sorted_segments[i].end >= sorted_segments[i + 1].start

HasOverlap(segs) ==
    LET sorted_segments == sorted_by_start(segs)
    IN \E i \in 1..(Len(sorted_segments) - 1) :
          sorted_segments[i].end > sorted_segments[i + 1].start

validate_edl_for_cutting(e) ==
    LET ks == keep_segments(e)
        bad == {i \in 1..Len(ks) : SegmentProblem(ks[i], e.total_duration) # None}
    IN IF ks = <<>>
       THEN Exc("EDLValidationError", "EDL must have at least one KEEP segment", None)
       ELSE IF bad # {}
       THEN Exc("EDLValidationError",
                SegmentProblem(ks[SetMin(bad)], e.total_duration), None)
       ELSE IF HasOverlap(ks)
       THEN Exc("EDLValidationError", "Overlapping KEEP segments detected", None)
       ELSE NoExc

(***************************************************************************)
(* The EDLs the operations are run on.                                     *)
(***************************************************************************)
SeqsUpTo(S, n) == UNION {[1..k -> S] : k \in 0..n}

\* every EDL of at most MaxSmall segments with times around [0, MaxTime]
SmallSegments ==
    {EditSegment(s, e, a, None, <<>>) :
        s \in (0 - 1)..MaxTime, e \in 0..(MaxTime + 1), a \in EditAction}

SmallEDLs ==
    {EditDecisionList("video.mp4", segs, MaxTime) : segs \in SeqsUpTo(SmallSegments, MaxSmall)}

(***************************************************************************)
(* Validation on its own: SpecValidate applies _validate_edl_for_cutting   *)
(* to every small EDL.                                                     *)
(***************************************************************************)
NoTempDir == [exists |-> FALSE, files |-> {}, concat_list |-> <<>>]

Idle ==
    /\ video_exists = TRUE
    /\ output_path = None
    /\ tmp_output = FALSE
    /\ procs = <<>>
    /\ temp_dir = NoTempDir
    /\ segment_files = <<>>
    /\ corrections = <<>>
    /\ ret = Running
    /\ NoAnalysis
    /\ NoFiles

InitValidate ==
    /\ pc = "validate_edl_for_cutting"
    /\ edl \in SmallEDLs
    /\ Idle

ValidateEdl ==
    /\ pc = "validate_edl_for_cutting"
    /\ ret' = (LET v == validate_edl_for_cutting(edl)
               IN IF v = NoExc THEN Return(None) ELSE Raise(v))
    /\ pc' = "done"
    /\ UNCHANGED <<edl, video_exists, output_path, tmp_output, procs, temp_dir,
                   segment_files, corrections>>
    /\ UNCHANGED <<analysis_vars, file_vars>>

NextValidate == ValidateEdl

SpecValidate == InitValidate /\ [][NextValidate]_vars

(***************************************************************************)
(* The structural rules of cutting, stated on the EDL alone.               *)
(***************************************************************************)
InBounds(seg, total) == 0 <= seg.start /\ seg.start < seg.end /\ seg.end <= total

\* the orders of 1..n that list the segments by non-decreasing start
OrdersByStart(segs) ==
    {p \in [1..Len(segs) -> 1..Len(segs)] :
        /\ \A i, j \in 1..Len(segs) : i # j => p[i] # p[j]
        /\ \A i \in 1..(Len(segs) - 1) : segs[p[i]].start <= segs[p[i + 1]].start}

\* two half-open ranges share an instant
Intersect(a, b) == a.start < b.end /\ b.start < a.end

\* the KEEP segments listed by start have each end <= the next start
NoOverlapWhenSorted(ks) ==
    \A p \in OrdersByStart(ks) :
        \A i \in 1..(Len(ks) - 1) : ks[p[i]].end <= ks[p[i + 1]].start

\* a KEEP segment exists, every KEEP segment is in bounds, and no two KEEP
\* segments share an instant
StructurallyValid(e) ==
    LET ks == keep_segments(e)
    IN /\ Len(ks) >= 1
       /\ \A i \in 1..Len(ks) : InBounds(ks[i], e.total_duration)
       /\ \A i, j \in 1..Len(ks) : i # j => ~Intersect(ks[i], ks[j])

CONCAT_DEMUXER_THRESHOLD == 5

\* the stderr bytes of a failed run: nothing, UTF-8 text, or bytes that are
\* not valid UTF-8
BadBytes == "\\xff"
Stderr == {"", "ffmpeg error message", BadBytes}

Proc(cmd, args, outcome, err) ==
    [cmd |-> cmd, args |-> args, outcome |-> outcome, stderr |-> err]

CalledProcessError(err) == Exc("CalledProcessError", "non-zero exit status", err)

\* except subprocess.CalledProcessError as e:
\*     stderr = e.stderr.decode("utf-8") if e.stderr else "Unknown error"
\*     raise VideoCuttingError(f"{msg}: {stderr}") from e
\* bytes.decode is strict: on invalid bytes it raises UnicodeDecodeError,
\* and that leaves the handler in place of the VideoCuttingError
WrapCalledProcessError(msg, err) ==
    IF err = "" THEN Exc("VideoCuttingError", msg, "Unknown error")
    ELSE IF err = BadBytes
    THEN Exc("UnicodeDecodeError", "'utf-8' codec can't decode byte", None)
    ELSE Exc("VideoCuttingError", msg, err)

\* the except clauses of cut_video, applied to an exception x raised in the
\* try block: what the caller of cut_video receives
cut_video_except(x) ==
    IF x.type = "CalledProcessError"
    THEN WrapCalledProcessError("Failed to cut video", x.diag)
    ELSE IF x.type \in {"EDLValidationError", "VideoCuttingError", "FileNotFoundError"}
    THEN x
    ELSE Exc("VideoCuttingError", "Failed to cut video", x.msg)

\* _check_ffmpeg_available without its `except FileNotFoundError` clause:
\* the FileNotFoundError of subprocess.run leaves the function as it is
check_ffmpeg_available_not_found_unhandled(outcome, err) ==
    IF outcome = "not found"
    THEN Exc("FileNotFoundError", "No such file or directory: 'ffmpeg'", None)
    ELSE IF outcome = "nonzero"
    THEN WrapCalledProcessError("ffmpeg check failed", err)
    ELSE NoExc

\* the exception _check_ffmpeg_available raises for an outcome of
\* `ffmpeg -version`, NoExc when it returns
check_ffmpeg_available(outcome, err) ==
    IF outcome = "not found"
    THEN Exc("VideoCuttingError", "ffmpeg is not installed or not found in PATH", None)
    ELSE IF outcome = "nonzero"
    THEN WrapCalledProcessError("ffmpeg check failed", err)
    ELSE NoExc

\* the threshold test written with >=
should_use_concat_demuxer_at_threshold(segment_count) ==
    segment_count >= CONCAT_DEMUXER_THRESHOLD

should_use_concat_demuxer(segment_count) == segment_count > CONCAT_DEMUXER_THRESHOLD

(***************************************************************************)
(* _build_ffmpeg_filter: the filter graph, as its parts.  For the segment  *)
(* at Python position i there is a video trim labelled [v<i>] and an audio *)
(* trim labelled [a<i>]; the concat filter lists the labels it reads.      *)
(***************************************************************************)
Trim(stream, segment, i) ==
    [input |-> stream, start |-> segment.start, end |-> segment.end,
     label |-> <<stream, i>>]

build_ffmpeg_filter(ks) ==
    [trims |-> [j \in 1..(2 * Len(ks)) |->
                   IF j % 2 = 1 THEN Trim("v", ks[(j + 1) \div 2], (j - 1) \div 2)
                   ELSE Trim("a", ks[j \div 2], (j - 2) \div 2)],
     concat_inputs |-> [j \in 1..(2 * Len(ks)) |->
                   IF j % 2 = 1 THEN <<"v", (j - 1) \div 2>>
                   ELSE <<"a", (j - 2) \div 2>>],
     n |-> Len(ks)]

(***************************************************************************)
(* The cut-then-concatenate strategy.                                      *)
(***************************************************************************)
\* os.path.join(temp_dir, f"segment_{i}.mp4")
segment_path(i) == <<"segment", i>>

concat_list_path == <<"concat_list.txt", 0>>

\* the command line -t written with the end time in place of the duration
cut_segment_cmd_until_end(segment, path) ==
    [ss |-> segment.start, t |-> segment.end, out |-> path]

\* the command line of _cut_segment_to_file: -ss start -i video -t duration
cut_segment_cmd(segment, path) ==
    [ss |-> segment.start, t |-> segment.end - segment.start, out |-> path]

\* _build_concat_list: one "file '<path>'" line per segment file
build_concat_list(files) == [j \in 1..Len(files) |-> [directive |-> "file", path |-> files[j]]]

\* step 1 of _cut_video_with_concat_demuxer: the runs of the loop, one per
\* KEEP segment, the segment at Python position i written to segment_<i>.mp4
concat_demuxer_cuts(ks) ==
    [j \in 1..Len(ks) |-> cut_segment_cmd(ks[j], segment_path(j - 1))]

\* leaving the `with tempfile.TemporaryDirectory()` block removes the
\* directory and all that is in it, on return and on an exception alike
ExitTempDirOnlyOnReturn(td, raising) == IF raising THEN td ELSE NoTempDir

ExitTempDir(td, raising) == NoTempDir

(***************************************************************************)
(* The EDLs cut_video is run on: n segments of one second each, tagged     *)
(* KEEP or REMOVE in every way, laid out one after the other, in reverse   *)
(* list order, overlapping, starting before 0, inverted, or running past   *)
(* total_duration.                                                         *)
(***************************************************************************)
Layouts == {"forward", "reversed", "overlapping", "negative", "inverted", "beyond"}

LaidOut(layout, n, i) ==
    CASE layout = "forward" -> <<i - 1, i>>
      [] layout = "reversed" -> <<n - i, n - i + 1>>
      [] layout = "overlapping" -> <<i - 1, i + 1>>
      [] layout = "negative" -> <<i - 2, i - 1>>
      [] layout = "inverted" -> <<i, i - 1>>
      [] layout = "beyond" -> <<i, i + 1>>

CutEDL(layout, acts) ==
    LET n == Len(acts)
    IN EditDecisionList("video.mp4",
          [i \in 1..n |->
              EditSegment(LaidOut(layout, n, i)[1], LaidOut(layout, n, i)[2], acts[i],
                          IF acts[i] = REMOVE THEN "filler" ELSE None, <<i - 1>>)],
          IF layout = "overlapping" THEN n + 1 ELSE n)

CutEDLs == {CutEDL(layout, acts) : layout \in Layouts, acts \in SeqsUpTo(EditAction, MaxSegs)}

(***************************************************************************)
(* cut_video.                                                              *)
(***************************************************************************)
Init ==
    /\ pc = "cut_video"
    /\ edl \in CutEDLs
    /\ video_exists \in BOOLEAN
    /\ output_path \in {None, "out.mp4"}
    /\ tmp_output = FALSE
    /\ procs = <<>>
    /\ temp_dir = NoTempDir
    /\ segment_files = <<>>
    /\ corrections = <<>>
    /\ ret = Running
    /\ NoAnalysis
    /\ NoFiles

\* if not os.path.exists(video_path): raise FileNotFoundError
CheckVideoExists ==
    /\ pc = "cut_video"
    /\ IF video_exists
       THEN pc' = "validate" /\ ret' = ret
       ELSE pc' = "done" /\ ret' = Raise(Exc("FileNotFoundError", "Video file not found", None))
    /\ UNCHANGED <<edl, video_exists, output_path, tmp_output, procs, temp_dir,
                   segment_files, corrections>>
    /\ UNCHANGED <<analysis_vars, file_vars>>

\* cut_video with the availability check moved in front of the validation
ValidateAfterFfmpegCheck ==
    /\ pc = "validate"
    /\ procs' = Append(procs, Proc("version", None, "ok", ""))
    /\ LET v == validate_edl_for_cutting(edl)
       IN IF v = NoExc
          THEN pc' = "output_path" /\ ret' = ret
          ELSE pc' = "done" /\ ret' = Raise(v)
    /\ UNCHANGED <<edl, video_exists, output_path, tmp_output, temp_dir,
                   segment_files, corrections>>
    /\ UNCHANGED <<analysis_vars, file_vars>>

\* _validate_edl_for_cutting(edl), outside the try block
ValidateForCutting ==
    /\ pc = "validate"
    /\ LET v == validate_edl_for_cutting(edl)
       IN IF v = NoExc
          THEN pc' = "output_path" /\ ret' = ret
          ELSE pc' = "done" /\ ret' = Raise(v)
    /\ UNCHANGED <<edl, video_exists, output_path, tmp_output, procs, temp_dir,
                   segment_files, corrections>>
    /\ UNCHANGED <<analysis_vars, file_vars>>

\* if output_path is None: fd, output_path = tempfile.mkstemp(suffix=".mp4")
DetermineOutputPath ==
    /\ pc = "output_path"
    /\ IF output_path = None
       THEN output_path' = "tmp.mp4" /\ tmp_output' = TRUE
       ELSE UNCHANGED <<output_path, tmp_output>>
    /\ pc' = "check_ffmpeg"
    /\ UNCHANGED <<edl, video_exists, procs, temp_dir, segment_files, corrections, ret>>
    /\ UNCHANGED <<analysis_vars, file_vars>>

\* _check_ffmpeg_available(): subprocess.run(["ffmpeg", "-version"])
CheckFfmpegAvailable ==
    /\ pc = "check_ffmpeg"
    /\ \E outcome \in {"ok", "not found", "nonzero"} :
       \E err \in (IF outcome = "nonzero" THEN Stderr ELSE {""}) :
          LET x == check_ffmpeg_available(outcome, err)
          IN /\ procs' = Append(procs, Proc("version", None, outcome, err))
             /\ IF x = NoExc
                THEN pc' = "choose" /\ ret' = ret
                ELSE pc' = "done" /\ ret' = Raise(cut_video_except(x))
    /\ UNCHANGED <<edl, video_exists, output_path, tmp_output, temp_dir,
                   segment_files, corrections>>
    /\ UNCHANGED <<analysis_vars, file_vars>>

\* keep_segments = edl.keep_segments; if _should_use_concat_demuxer(len(...))
ChooseStrategy ==
    /\ pc = "choose"
    /\ pc' = IF should_use_concat_demuxer(Len(keep_segments(edl)))
             THEN "concat_demuxer" ELSE "filter_complex"
    /\ UNCHANGED <<edl, video_exists, output_path, tmp_output, procs, temp_dir,
                   segment_files, corrections, ret>>
    /\ UNCHANGED <<analysis_vars, file_vars>>

\* _cut_video_with_filter_complex: one run with the filter graph
CutWithFilterComplex ==
    /\ pc = "filter_complex"
    /\ \E outcome \in {"ok", "nonzero"} :
       \E err \in (IF outcome = "nonzero" THEN Stderr ELSE {""}) :
          /\ procs' = Append(procs, Proc("filter_complex",
                                        build_ffmpeg_filter(keep_segments(edl)),
                                        outcome, err))
          /\ ret' = IF outcome = "ok" THEN Return(output_path)
                    ELSE Raise(cut_video_except(CalledProcessError(err)))
    /\ pc' = "done"
    /\ UNCHANGED <<edl, video_exists, output_path, tmp_output, temp_dir,
                   segment_files, corrections>>
    /\ UNCHANGED <<analysis_vars, file_vars>>

\* with tempfile.TemporaryDirectory() as temp_dir: segment_files = []
EnterTempDir ==
    /\ pc = "concat_demuxer"
    /\ temp_dir' = [exists |-> TRUE, files |-> {}, concat_list |-> <<>>]
    /\ segment_files' = <<>>
    /\ pc' = "cut_segment"
    /\ UNCHANGED <<edl, video_exists, output_path, tmp_output, procs, corrections, ret>>
    /\ UNCHANGED <<analysis_vars, file_vars>>

\* one turn of the loop of step 1: _cut_segment_to_file, segment_files.append.
\* A failed run may leave a partial segment file behind.
CutSegmentToFile ==
    /\ pc = "cut_segment"
    /\ LET ks == keep_segments(edl)
           i == Len(segment_files)
           cmd == concat_demuxer_cuts(ks)[i + 1]
           path == cmd.out
       IN \E outcome \in {"ok", "nonzero"} :
          \E err \in (IF outcome = "nonzero" THEN Stderr ELSE {""}) :
          \E written \in (IF outcome = "nonzero" THEN BOOLEAN ELSE {TRUE}) :
             LET td == [temp_dir EXCEPT !.files = IF written THEN @ \cup {path} ELSE @]
             IN /\ procs' = Append(procs, Proc("cut_segment", cmd, outcome, err))
                /\ IF outcome = "ok"
                   THEN /\ segment_files' = Append(segment_files, path)
                        /\ temp_dir' = td
                        /\ pc' = IF i + 1 < Len(ks) THEN "cut_segment" ELSE "write_list"
                        /\ ret' = ret
                   ELSE /\ segment_files' = segment_files
                        /\ temp_dir' = ExitTempDir(td, TRUE)
                        /\ pc' = "done"
                        /\ ret' = Raise(cut_video_except(
                                     WrapCalledProcessError("Failed to cut segment", err)))
    /\ UNCHANGED <<edl, video_exists, output_path, tmp_output, corrections>>
    /\ UNCHANGED <<analysis_vars, file_vars>>

\* step 2: open(concat_list_path, "w"), f.write(_build_concat_list(...)).
\* A failed write raises OSError and may leave the file behind.
WriteConcatList ==
    /\ pc = "write_list"
    /\ \E outcome \in {"ok", "oserror"} :
       \E written \in (IF outcome = "oserror" THEN BOOLEAN ELSE {TRUE}) :
          LET td == [temp_dir EXCEPT
                        !.files = IF written THEN @ \cup {concat_list_path} ELSE @,
                        !.concat_list = IF outcome = "ok"
                                        THEN build_concat_list(segment_files) ELSE @]
          IN IF outcome = "ok"
             THEN /\ temp_dir' = td
                  /\ pc' = "concat"
                  /\ ret' = ret
             ELSE /\ temp_dir' = ExitTempDir(td, TRUE)
                  /\ pc' = "done"
                  /\ ret' = Raise(cut_video_except(
                               Exc("OSError", "No space left on device", None)))
    /\ UNCHANGED <<edl, video_exists, output_path, tmp_output, procs,
                   segment_files, corrections>>
    /\ UNCHANGED <<analysis_vars, file_vars>>

\* step 3: the concat demuxer run on the list file, then the end of the
\* with block
ConcatSegments ==
    /\ pc = "concat"
    /\ \E outcome \in {"ok", "nonzero"} :
       \E err \in (IF outcome = "nonzero" THEN Stderr ELSE {""}) :
          /\ procs' = Append(procs, Proc("concat", temp_dir.concat_list, outcome, err))
          /\ temp_dir' = ExitTempDir(temp_dir, outcome # "ok")
          /\ ret' = IF outcome = "ok" THEN Return(output_path)
                    ELSE Raise(cut_video_except(
                            WrapCalledProcessError("Failed to concatenate segments", err)))
    /\ pc' = "done"
    /\ UNCHANGED <<edl, video_exists, output_path, tmp_output, segment_files, corrections>>
    /\ UNCHANGED <<analysis_vars, file_vars>>

Next ==
    \/ CheckVideoExists
    \/ ValidateForCutting
    \/ DetermineOutputPath
    \/ CheckFfmpegAvailable
    \/ ChooseStrategy
    \/ CutWithFilterComplex
    \/ EnterTempDir
    \/ CutSegmentToFile
    \/ WriteConcatList
    \/ ConcatSegments

Spec == Init /\ [][Next]_vars


(***************************************************************************)
(* Properties of cut_video.                                                *)
(***************************************************************************)
NumKeep == Len(keep_segments(edl))

\* the runs of the media tool that cut or join video, in order
CuttingProcs == SelectSeq(procs, LAMBDA p : p.cmd # "version")

Count(cmd) == Cardinality({i \in 1..Len(procs) : procs[i].cmd = cmd})

IsPrefix(a, b) == Len(a) <= Len(b) /\ a = SubSeq(b, 1, Len(a))

\* C1: on an existing video with an EDL that violates a structural rule,
\* cut_video ends in an EDLValidationError and no process of the media tool
\* has been started at any point of the call, the availability check
\* included; on a missing video it ends in FileNotFoundError without reaching
\* the validation and without any process.
C1_InvalidEdlSpawnsNothing ==
    /\ (video_exists /\ ~StructurallyValid(edl)) =>
          /\ procs = <<>>
          /\ pc \in {"cut_video", "validate", "done"}
          /\ pc = "done" => Raised(ret) /\ ret.exc.type = "EDLValidationError"
    /\ ~video_exists =>
          /\ procs = <<>>
          /\ pc \in {"cut_video", "done"}
          /\ pc = "done" => Raised(ret) /\ ret.exc.type = "FileNotFoundError"

\* C1 witness: a call on an existing video whose KEEP segments overlap has
\* ended
C1_Witness ==
    /\ pc = "done"
    /\ video_exists
    /\ NumKeep >= 2
    /\ \A i \in 1..NumKeep : InBounds(keep_segments(edl)[i], edl.total_duration)
    /\ ~StructurallyValid(edl)

\* the cutting runs of a call whose runs all succeed, for k KEEP segments
Schedule(k) ==
    IF k <= CONCAT_DEMUXER_THRESHOLD THEN <<"filter_complex">>
    ELSE [j \in 1..(k + 1) |-> IF j <= k THEN "cut_segment" ELSE "concat"]

\* C3: with k KEEP segments and threshold 5, a call whose runs all succeed
\* makes exactly one filter-graph run when k <= 5, and exactly k segment cuts
\* followed by exactly one concatenation when k > 5; at every point of every
\* call the cutting runs made so far are a prefix of that sequence, so the
\* concatenation starts only after all k segment cuts have completed.
C3_StrategySelection ==
    LET cmds == [j \in 1..Len(CuttingProcs) |-> CuttingProcs[j].cmd]
    IN /\ IsPrefix(cmds, Schedule(NumKeep))
       /\ Returned(ret) => cmds = Schedule(NumKeep)
       /\ \A j \in 1..Len(CuttingProcs) :
             CuttingProcs[j].cmd = "concat" =>
                /\ j = NumKeep + 1
                /\ \A i \in 1..NumKeep : CuttingProcs[i].outcome = "ok"

\* C3 witness: a call with exactly threshold + 1 KEEP segments has returned
C3_Witness ==
    /\ Returned(ret)
    /\ NumKeep = CONCAT_DEMUXER_THRESHOLD + 1
    /\ Count("cut_segment") = NumKeep
    /\ Count("concat") = 1

(***************************************************************************)
(* What the media tool renders from its arguments.                         *)
(***************************************************************************)
KeptRanges(ks) == [j \in 1..Len(ks) |-> <<ks[j].start, ks[j].end>>]

\* the concat filter with n=<n>:v=1:a=1 reads its inputs in pairs, the j-th
\* pair being the video and the audio of the j-th output piece; a label
\* names the trim that writes it
TrimLabelled(f, label) ==
    f.trims[CHOOSE i \in 1..Len(f.trims) : f.trims[i].label = label]

FilterVideoRanges(f) ==
    [j \in 1..f.n |-> LET t == TrimLabelled(f, f.concat_inputs[2 * j - 1])
                      IN <<t.start, t.end>>]

FilterAudioRanges(f) ==
    [j \in 1..f.n |-> LET t == TrimLabelled(f, f.concat_inputs[2 * j])
                      IN <<t.start, t.end>>]

\* the concat demuxer plays the files of the list in order; each file holds
\* what the run that wrote it copied: t seconds from ss
ConcatRanges(cuts, list) ==
    [j \in 1..Len(list) |->
        LET c == cuts[CHOOSE i \in 1..Len(cuts) : cuts[i].out = list[j].path]
        IN <<c.ss, c.ss + c.t>>]

\* the ranges rendered by the runs of the finished call
RenderedRanges ==
    LET last == procs[Len(procs)]
        cuts == SelectSeq(procs, LAMBDA p : p.cmd = "cut_segment")
    IN IF last.cmd = "filter_complex" THEN FilterVideoRanges(last.args)
       ELSE ConcatRanges([j \in 1..Len(cuts) |-> cuts[j].args], last.args)

\* C4: for the same list of KEEP segments the filter graph and the
\* cut-then-concatenate commands render the same ranges in the same order,
\* the order of the KEEP segments in the EDL list: piece j of either one is
\* the (start, end) of the j-th KEEP segment; and a call that returns has
\* rendered exactly those ranges.
C4_StrategiesRenderSameRanges ==
    LET ks == keep_segments(edl)
        f == build_ffmpeg_filter(ks)
        cuts == concat_demuxer_cuts(ks)
        list == build_concat_list([j \in 1..Len(cuts) |-> cuts[j].out])
    IN /\ FilterVideoRanges(f) = KeptRanges(ks)
       /\ FilterAudioRanges(f) = KeptRanges(ks)
       /\ ConcatRanges(cuts, list) = KeptRanges(ks)
       /\ FilterVideoRanges(f) = ConcatRanges(cuts, list)
       /\ Returned(ret) => RenderedRanges = KeptRanges(ks)

\* C4 witness: a cut-then-concatenate call has returned for an EDL whose
\* KEEP segments are listed latest first
C4_Witness ==
    /\ Returned(ret)
    /\ Count("concat") = 1
    /\ keep_segments(edl)[1].start > keep_segments(edl)[2].start

\* C5: when a cut-then-concatenate call has returned or raised, the
\* temporary directory, the segment files and the list file are gone.
C5_TempDirReleased ==
    pc = "done" =>
        /\ ~temp_dir.exists
        /\ temp_dir.files = {}

\* C5 witness: a segment cut failed after earlier segment cuts succeeded
C5_Witness ==
    /\ pc = "done"
    /\ Raised(ret)
    /\ Len(procs) >= 3
    /\ procs[Len(procs)].cmd = "cut_segment"
    /\ procs[Len(procs)].outcome = "nonzero"

\* C6: the first cutting run that exits non-zero ends the call with a
\* rendering failure (VideoCuttingError), and no run follows it.
C6_NoRetries ==
    \A j \in 1..Len(procs) :
        (procs[j].cmd # "version" /\ procs[j].outcome = "nonzero") =>
            /\ j = Len(procs)
            /\ pc = "done"
            /\ Raised(ret)
            /\ ret.exc.type = "VideoCuttingError"

\* the part of C6 about retries alone: no run follows a failed run
NoRunAfterFailure ==
    \A j \in 1..Len(procs) : procs[j].outcome # "ok" => j = Len(procs) /\ pc = "done"

\* C7: a non-zero exit of a cutting run reaches the caller as a
\* VideoCuttingError carrying the stderr text of the tool, never as another
\* exception; FileNotFoundError and EDLValidationError pass through
\* unchanged.
C7_SingleRenderingFailureKind ==
    /\ \A j \in 1..Len(procs) :
          (procs[j].cmd # "version" /\ procs[j].outcome = "nonzero") =>
              /\ Raised(ret)
              /\ ret.exc.type = "VideoCuttingError"
              /\ procs[j].stderr # "" => ret.exc.diag = procs[j].stderr
    /\ (pc = "done" /\ ~video_exists) => ret.exc.type = "FileNotFoundError"
    /\ (pc = "done" /\ video_exists /\ ~StructurallyValid(edl)) =>
          ret.exc.type = "EDLValidationError"

\* the failure a missing binary ends the call with
ToolMissing(r) ==
    /\ Raised(r)
    /\ r.exc.msg = "ffmpeg is not installed or not found in PATH"

\* the order and the number of the availability checks of a call
CheckedOnceBeforeCutting ==
    /\ Count("version") <= 1
    /\ procs # <<>> =>
          /\ procs[1].cmd = "version"
          /\ video_exists
          /\ StructurallyValid(edl)
    /\ \A j \in 1..Len(procs) :
          procs[j].cmd = "version" /\ procs[j].outcome = "not found" =>
              /\ Len(procs) = 1
              /\ pc = "done"
              /\ ToolMissing(ret)

CorrKeys(corr) == {corr[j][1] : j \in 1..Len(corr)}

\* corrections[i]
CorrLookup(corr, i) == corr[CHOOSE j \in 1..Len(corr) : corr[j][1] = i][2]

\* the validation loop with the test for a negative index left out
InvalidPositionsIgnoringNegative(e, corr) ==
    {j \in 1..Len(corr) : corr[j][1] >= Len(e.segments)}

\* for index in corrections: if index < 0 or index >= len(edl.segments)
\* the positions, in iteration order, of the keys the loop would raise on
InvalidPositions(e, corr) ==
    {j \in 1..Len(corr) : corr[j][1] < 0 \/ corr[j][1] >= Len(e.segments)}

\* the copy of a segment that loses the reason
corrected_segment_without_reason(segment, action) ==
    EditSegment(segment.start, segment.end, action, None,
                segment.transcript_indices)

\* EditSegment(start=segment.start, end=segment.end, action=action,
\*             reason=segment.reason,
\*             transcript_indices=list(segment.transcript_indices))
corrected_segment(segment, action) ==
    EditSegment(segment.start, segment.end, action, segment.reason,
                segment.transcript_indices)

apply_edl_corrections(e, corr) ==
    LET invalid == InvalidPositions(e, corr)
    IN IF invalid # {}
       THEN Raise(Exc("KeyError", "Invalid segment index",
                      ToString(corr[SetMin(invalid)][1])))
       ELSE Return(EditDecisionList(
                e.source_video,
                [i \in 1..Len(e.segments) |->
                    corrected_segment(e.segments[i],
                        IF (i - 1) \in CorrKeys(corr) THEN CorrLookup(corr, i - 1)
                        ELSE e.segments[i].action)],
                e.total_duration))

\* the EDLs and the dicts apply_edl_corrections is run on
CorrSegments ==
    {EditSegment(s, s + 1, a, d[1], d[2]) :
        s \in 0..1, a \in EditAction, d \in {<<None, <<>>>>, <<"filler", <<0, 1>>>>}}

CorrEDLs ==
    {EditDecisionList("video.mp4", segs, MaxTime) : segs \in SeqsUpTo(CorrSegments, MaxSmall)}

CorrectionDicts ==
    {c \in SeqsUpTo(((0 - 1)..MaxSmall) \X EditAction, MaxCorr) :
        \A i, j \in 1..Len(c) : i # j => c[i][1] # c[j][1]}

InitCorr ==
    /\ pc = "apply_edl_corrections"
    /\ edl \in CorrEDLs
    /\ corrections \in CorrectionDicts
    /\ video_exists = TRUE
    /\ output_path = None
    /\ tmp_output = FALSE
    /\ procs = <<>>
    /\ temp_dir = NoTempDir
    /\ segment_files = <<>>
    /\ ret = Running
    /\ NoAnalysis
    /\ NoFiles

\* the call reads its arguments and builds new objects: edl and corrections
\* are left as they were
ApplyEdlCorrections ==
    /\ pc = "apply_edl_corrections"
    /\ ret' = apply_edl_corrections(edl, corrections)
    /\ pc' = "done"
    /\ UNCHANGED <<edl, video_exists, output_path, tmp_output, procs, temp_dir,
                   segment_files, corrections>>
    /\ UNCHANGED <<analysis_vars, file_vars>>

NextCorr == ApplyEdlCorrections

SpecCorr == InitCorr /\ [][NextCorr]_vars

KeyInRange(k) == 0 <= k /\ k < Len(edl.segments)

\* C9: if any key of the corrections dict is negative or >= len(segments),
\* whatever the other keys and whatever the order the keys are visited in,
\* the call raises KeyError and returns no EDL; and the call leaves the
\* input EDL as it was.
C9_InvalidKeyFailsWhole ==
    /\ [](pc = "done" =>
            ((\E j \in 1..Len(corrections) : ~KeyInRange(corrections[j][1])) =>
                /\ Raised(ret)
                /\ ret.exc.type = "KeyError"
                /\ ret.value = None))
    /\ [][edl' = edl]_vars

\* C9 witness: a call with a valid key visited before an invalid one has
\* ended
C9_Witness ==
    /\ pc = "done"
    /\ Len(corrections) = 2
    /\ KeyInRange(corrections[1][1])
    /\ corrections[1][2] # edl.segments[corrections[1][1] + 1].action
    /\ ~KeyInRange(corrections[2][1])

\* C10: with all keys in range the call returns an EDL with the same
\* source_video, total_duration and number of segments, whose segment i has
\* the action corrections[i] when i is a key and the original action
\* otherwise, and the original start, end, reason and transcript_indices;
\* with the empty dict the result equals the input in every field; and the
\* input EDL is left as it was.
C10_CorrectionsFrame ==
    /\ [](pc = "done" =>
            ((\A j \in 1..Len(corrections) : KeyInRange(corrections[j][1])) =>
                /\ Returned(ret)
                /\ ret.value.source_video = edl.source_video
                /\ ret.value.total_duration = edl.total_duration
                /\ Len(ret.value.segments) = Len(edl.segments)
                /\ \A i \in 1..Len(edl.segments) :
                      LET old == edl.segments[i]
                          new == ret.value.segments[i]
                      IN /\ new.start = old.start
                         /\ new.end = old.end
                         /\ new.reason = old.reason
                         /\ new.transcript_indices = old.transcript_indices
                         /\ \A j \in 1..Len(corrections) :
                               corrections[j][1] = i - 1 => new.action = corrections[j][2]
                         /\ (\A j \in 1..Len(corrections) : corrections[j][1] # i - 1)
                               => new.action = old.action
                /\ corrections = <<>> => ret.value = edl))
    /\ [][edl' = edl]_vars

\* C10 witness: a call that changes the action of one segment with a
\* reason, and leaves another segment alone, has returned
C10_Witness ==
    /\ Returned(ret)
    /\ Len(edl.segments) = 2
    /\ Len(corrections) = 1
    /\ corrections[1][1] = 1
    /\ edl.segments[2].reason # None
    /\ ret.value.segments[2].action # edl.segments[2].action

(***************************************************************************)
(* The operations below take no part in cutting: the variables of          *)
(* cut_video and of apply_edl_corrections stay as constructed.             *)
(***************************************************************************)
cut_vars == <<video_exists, output_path, tmp_output, procs, temp_dir,
              segment_files, corrections>>

NoCutting ==
    /\ video_exists = TRUE
    /\ output_path = None
    /\ tmp_output = FALSE
    /\ procs = <<>>
    /\ temp_dir = NoTempDir
    /\ segment_files = <<>>
    /\ corrections = <<>>

(***************************************************************************)
(* JSON persistence (edit_decision.py).  A JSON document is the tree that  *)
(* json.dumps writes and json.loads reads back: a node is its JSON type t  *)
(* and its content v; an object is the sequence of its (name, value)       *)
(* members in the order they were written.                                 *)
(***************************************************************************)
JsonNull == [t |-> "null", v |-> "null"]

JsonString(s) == [t |-> "string", v |-> s]

JsonNumber(n) == [t |-> "number", v |-> n]

JsonArray(items) == [t |-> "array", v |-> items]

JsonObject(members) == [t |-> "object", v |-> members]

\* segment.action.value
action_value(a) == CASE a = KEEP -> "keep" [] a = REMOVE -> "remove"

\* a writer that has no null: None is written as the empty string
reason_to_json_without_null(r) == JsonString(IF r = None THEN "" ELSE r)

\* "reason": segment.reason, a str or None
reason_to_json(r) == IF r = None THEN JsonNull ELSE JsonString(r)

\* the dict edl_to_json builds for one segment
segment_to_json(segment) ==
    JsonObject(<<
        <<"start", JsonNumber(segment.start)>>,
        <<"end", JsonNumber(segment.end)>>,
        <<"action", JsonString(action_value(segment.action))>>,
        <<"reason", reason_to_json(segment.reason)>>,
        <<"transcript_indices",
          JsonArray([j \in 1..Len(segment.transcript_indices) |->
                        JsonNumber(segment.transcript_indices[j])])>> >>)

edl_to_json(e) ==
    JsonObject(<<
        <<"source_video", JsonString(e.source_video)>>,
        <<"total_duration", JsonNumber(e.total_duration)>>,
        <<"segments",
          JsonArray([i \in 1..Len(e.segments) |-> segment_to_json(e.segments[i])])>> >>)

\* name in d, and d[name], for a dict read from a JSON object
HasMember(obj, name) == \E j \in 1..Len(obj.v) : obj.v[j][1] = name

Member(obj, name) == obj.v[CHOOSE j \in 1..Len(obj.v) : obj.v[j][1] = name][2]

\* the Python value json.loads gives for a node that is not an object
loads(node) ==
    CASE node.t = "null" -> None
      [] node.t = "array" -> [j \in 1..Len(node.v) |-> node.v[j].v]
      [] OTHER -> node.v

\* EditAction(seg["action"])
EditAction_of_value(v) == CASE v = "keep" -> KEEP [] v = "remove" -> REMOVE

SegmentFields == <<"start", "end", "action", "reason", "transcript_indices">>

\* what building the EditSegment of one dict raises: the KeyError of the
\* first field it reads that is missing, the ValueError of EditAction(...)
segment_from_dict_error(seg) ==
    LET missing == {j \in 1..Len(SegmentFields) : ~HasMember(seg, SegmentFields[j])}
        bad_action == /\ HasMember(seg, "action")
                      /\ Member(seg, "action").v \notin {"keep", "remove"}
    IN IF missing # {} /\ (~bad_action \/ SetMin(missing) < 3)
       THEN Exc("KeyError", SegmentFields[SetMin(missing)], None)
       ELSE IF bad_action
            THEN Exc("ValueError", "is not a valid EditAction", None)
            ELSE NoExc

segment_from_dict(seg) ==
    EditSegment(loads(Member(seg, "start")),
                loads(Member(seg, "end")),
                EditAction_of_value(loads(Member(seg, "action"))),
                loads(Member(seg, "reason")),
                loads(Member(seg, "transcript_indices")))

edl_from_dict(data) ==
    IF ~HasMember(data, "segments")
    THEN Raise(Exc("KeyError", "segments", None))
    ELSE LET segs == Member(data, "segments").v
             failing == {i \in 1..Len(segs) : segment_from_dict_error(segs[i]) # NoExc}
         IN IF failing # {}
            THEN Raise(segment_from_dict_error(segs[SetMin(failing)]))
            ELSE IF ~HasMember(data, "source_video")
                 THEN Raise(Exc("KeyError", "source_video", None))
                 ELSE IF ~HasMember(data, "total_duration")
                      THEN Raise(Exc("KeyError", "total_duration", None))
                      ELSE Return(EditDecisionList(
                               loads(Member(data, "source_video")),
                               [i \in 1..Len(segs) |-> segment_from_dict(segs[i])],
                               loads(Member(data, "total_duration"))))

\* data = json.loads(json_str); return edl_from_dict(data)
edl_from_json(doc) == edl_from_dict(doc)

\* the EDLs that are written and read back
JsonSegments ==
    {EditSegment(s, s + 1, a, r, ti) :
        s \in 0..1, a \in EditAction, r \in {None, "filler word"},
        ti \in {<<>>, <<0>>, <<1, 2>>}}

JsonEDLs ==
    {EditDecisionList(src, segs, MaxTime) :
        src \in {"video.mp4"}, segs \in SeqsUpTo(JsonSegments, MaxSmall)}

InitJson ==
    /\ pc = "edl_to_json"
    /\ edl \in JsonEDLs
    /\ NoCutting
    /\ NoFiles
    /\ NoAnalysis
    /\ ret = Running

EdlToJson ==
    /\ pc = "edl_to_json"
    /\ json_str' = edl_to_json(edl)
    /\ pc' = "edl_from_json"
    /\ UNCHANGED <<edl, transcript, ai_response, duration, segments, warnings, ret>>
    /\ UNCHANGED <<cut_vars, file_vars>>

EdlFromJson ==
    /\ pc = "edl_from_json"
    /\ ret' = edl_from_json(json_str)
    /\ pc' = "done"
    /\ UNCHANGED <<edl, analysis_vars>>
    /\ UNCHANGED <<cut_vars, file_vars>>

NextJson ==
    \/ EdlToJson
    \/ EdlFromJson

SpecJson == InitJson /\ [][NextJson]_vars

\* C11: decoding the document written for an EDL gives the EDL back: the same
\* source_video and total_duration, as many segments in the same order, and
\* in every segment the same start, end, action, reason (None included) and
\* transcript_indices (empty and multi-element lists included).
C11_JsonRoundTrip ==
    pc = "done" =>
        /\ Returned(ret)
        /\ ret.value.source_video = edl.source_video
        /\ ret.value.total_duration = edl.total_duration
        /\ Len(ret.value.segments) = Len(edl.segments)
        /\ \A i \in 1..Len(edl.segments) :
              LET x == edl.segments[i]
                  y == ret.value.segments[i]
              IN /\ y.start = x.start
                 /\ y.end = x.end
                 /\ y.action = x.action
                 /\ y.reason = x.reason
                 /\ y.transcript_indices = x.transcript_indices

\* an EDL with a None reason, a text reason, an empty and a two-element
\* index list has been written and read back
C11_Witness ==
    /\ pc = "done"
    /\ Returned(ret)
    /\ Len(edl.segments) = 2
    /\ edl.segments[1].reason = None
    /\ edl.segments[1].transcript_indices = <<1, 2>>
    /\ edl.segments[2].reason = "filler word"
    /\ edl.segments[2].transcript_indices = <<>>
    /\ edl.segments[2].action = REMOVE
    /\ json_str = edl_to_json(edl)

(***************************************************************************)
(* Durations of an EDL (edit_decision.py) and the default EDL that         *)
(* edit_video builds from a transcript (edit_pipeline.py).                 *)
(***************************************************************************)
MaxTranscript == 3      \* longest transcript

RECURSIVE sum_of_lengths(_)
\* sum(s.end - s.start for s in ...)
sum_of_lengths(segs) ==
    IF segs = <<>> THEN 0
    ELSE (Head(segs).end - Head(segs).start) + sum_of_lengths(Tail(segs))

\* a kept_duration that forgets to filter on the action
duration_of_all_segments(e) == sum_of_lengths(e.segments)

kept_duration(e) == sum_of_lengths(keep_segments(e))

\* a removed_duration that counts every segment that is not a REMOVE
duration_of_kept_segments(e) == sum_of_lengths(keep_segments(e))

removed_duration(e) == sum_of_lengths(remove_segments(e))

TranscriptSegment(s, e, tx) == [start |-> s, end |-> e, text |-> tx]

\* an initial EDL whose segments all name the first transcript segment
create_initial_edl_of_first_index(segs, video_path, d) ==
    EditDecisionList(
        video_path,
        [i \in 1..Len(segs) |->
            EditSegment(segs[i].start, segs[i].end, KEEP, None, <<0>>)],
        d)

\* one KEEP segment per transcript segment, total_duration as probed
create_initial_edl(segs, video_path, d) ==
    EditDecisionList(
        video_path,
        [i \in 1..Len(segs) |->
            EditSegment(segs[i].start, segs[i].end, KEEP, None, <<i - 1>>)],
        d)

\* the transcripts: segment i lasts i + 1 seconds; the segments follow each
\* other from 0 ("contiguous"), from 1 ("late"), or with a second of silence
\* between them ("gapped")
TranscriptLayouts == {"contiguous", "late", "gapped"}

Triangle(i) == (i * (i + 1)) \div 2

TranscriptOf(layout, n) ==
    [i \in 1..n |->
        LET shift == CASE layout = "contiguous" -> 0
                       [] layout = "late" -> 1
                       [] layout = "gapped" -> i - 1
        IN TranscriptSegment(Triangle(i - 1) + shift, Triangle(i) + shift, "words")]

Transcripts == {TranscriptOf(layout, n) : layout \in TranscriptLayouts, n \in 0..MaxTranscript}

\* the end of the speech, and the durations the probe may report for it
SpeechEnd(segs) == IF segs = <<>> THEN 0 ELSE segs[Len(segs)].end

ProbedDurations(segs) == {SpeechEnd(segs), SpeechEnd(segs) + 1}

NoEDL == EditDecisionList("video.mp4", <<>>, 0)

\* the durations are read either of an EDL constructed directly or of the
\* default EDL of a transcript
InitDurations ==
    /\ \/ /\ pc = "durations"
          /\ edl \in SmallEDLs
          /\ transcript = <<>>
          /\ duration = 0
       \/ /\ pc = "create_initial_edl"
          /\ edl = NoEDL
          /\ transcript \in Transcripts
          /\ duration \in ProbedDurations(transcript)
    /\ json_str = <<>>
    /\ ai_response = <<>>
    /\ segments = <<>>
    /\ warnings = <<>>
    /\ NoCutting
    /\ NoFiles
    /\ ret = Running

CreateInitialEdl ==
    /\ pc = "create_initial_edl"
    /\ edl' = create_initial_edl(transcript, "video.mp4", duration)
    /\ pc' = "durations"
    /\ UNCHANGED <<analysis_vars, ret>>
    /\ UNCHANGED <<cut_vars, file_vars>>

ReadDurations ==
    /\ pc = "durations"
    /\ ret' = Return([kept_duration |-> kept_duration(edl),
                      removed_duration |-> removed_duration(edl)])
    /\ pc' = "done"
    /\ UNCHANGED <<edl, analysis_vars>>
    /\ UNCHANGED <<cut_vars, file_vars>>

NextDurations ==
    \/ CreateInitialEdl
    \/ ReadDurations

SpecDurations == InitDurations /\ [][NextDurations]_vars

\* no segment ends before it starts
NoneInverted(e) == \A i \in 1..Len(e.segments) : e.segments[i].start <= e.segments[i].end

\* the segments, KEEP and REMOVE alike, lie in [0, total_duration] and no
\* two of them share an instant
DisjointWithinTotal(e) ==
    /\ \A i \in 1..Len(e.segments) :
          0 <= e.segments[i].start /\ e.segments[i].end <= e.total_duration
    /\ \A i, j \in 1..Len(e.segments) :
          i < j => ~Intersect(e.segments[i], e.segments[j])

\* C12 as stated: for every EDL kept_duration + removed_duration is at most
\* total_duration and neither duration is negative.
C12_DurationInvariant ==
    pc = "done" =>
        /\ ret.value.kept_duration + ret.value.removed_duration <= edl.total_duration
        /\ ret.value.kept_duration >= 0
        /\ ret.value.removed_duration >= 0

\* C12: the durations are the sums of the KEEP and of the REMOVE lengths;
\* neither is negative when no segment ends before it starts, and together
\* they are at most total_duration when in addition the segments lie in
\* [0, total_duration] and no two of them overlap.
C12_DurationsOfDisjointSegments ==
    pc = "done" =>
        /\ NoneInverted(edl) =>
              ret.value.kept_duration >= 0 /\ ret.value.removed_duration >= 0
        /\ NoneInverted(edl) /\ DisjointWithinTotal(edl) =>
              ret.value.kept_duration + ret.value.removed_duration
                  <= edl.total_duration

\* the durations of a KEEP and a REMOVE that fill [0, total_duration]
C12_Witness ==
    /\ pc = "done"
    /\ NoneInverted(edl) /\ DisjointWithinTotal(edl)
    /\ Len(keep_segments(edl)) = 1 /\ Len(remove_segments(edl)) = 1
    /\ ret.value.kept_duration > 0
    /\ ret.value.removed_duration > 0
    /\ ret.value.kept_duration + ret.value.removed_duration = edl.total_duration

AllKeep(e) == \A i \in 1..Len(e.segments) : e.segments[i].action = KEEP

\* the segments follow each other from 0 to total_duration
Tiles(e) ==
    /\ IF e.segments = <<>> THEN e.total_duration = 0
       ELSE /\ e.segments[1].start = 0
            /\ e.segments[Len(e.segments)].end = e.total_duration
    /\ \A i \in 1..(Len(e.segments) - 1) : e.segments[i].end = e.segments[i + 1].start

MaxLines == 3       \* most lines in a text of several decisions

Line(tag, range, colon, text) ==
    [tag |-> tag, range |-> range, colon |-> colon, text |-> text]

BlankLine == Line("", <<>>, FALSE, "")

\* str.upper() on the tags of the model
upper(tag) ==
    CASE tag = "keep" -> "KEEP"
      [] tag = "Remove" -> "REMOVE"
      [] tag = "review" -> "REVIEW"
      [] OTHER -> tag

\* str.strip() on the texts of the model
strip(text) ==
    CASE text = " filler words " -> "filler words"
      [] text = " " -> ""
      [] OTHER -> text

\* the tags the two patterns accept, in any letter case
StrictTags == {"KEEP", "REMOVE"}

LenientTags == {"KEEP", "REMOVE", "REVIEW"}

\* re.match(pattern, line): a tag of the pattern, at least one number, the
\* colon, and at least one character left after the white space
Match(line, tags) ==
    /\ upper(line.tag) \in tags
    /\ Len(line.range) >= 1
    /\ line.colon
    /\ strip(line.text) # ""

\* start_index = int(match.group(2))
start_index(line) == line.range[1]

\* end_index = int(end_index_str) if end_index_str else start_index
end_index(line) == IF Len(line.range) = 2 THEN line.range[2] ELSE start_index(line)

\* index < 0 or index >= len(segments)
IndexInvalid(i, segs) == i < 0 \/ i >= Len(segs)

\* list(range(a, b + 1))
index_range(a, b) == [j \in 1..(b - a + 1) |-> a + j - 1]

\* a resolution that takes both times from the segment of the start index
resolve_range_from_start_only(a, b, segs) ==
    [start |-> segs[a + 1].start,
     end |-> segs[a + 1].end,
     transcript_indices |-> index_range(a, b)]

\* start_time = segments[start_index].start
\* end_time = segments[end_index].end
\* transcript_indices = list(range(start_index, end_index + 1))
resolve_range(a, b, segs) ==
    [start |-> segs[a + 1].start,
     end |-> segs[b + 1].end,
     transcript_indices |-> index_range(a, b)]

\* a strict parser that stores the text of every line as its reason
strict_decision_with_text(line, segs) ==
    LET span == resolve_range(start_index(line), end_index(line), segs)
    IN EditSegment(span.start, span.end,
                   IF upper(line.tag) = "KEEP" THEN KEEP ELSE REMOVE,
                   strip(line.text), span.transcript_indices)

\* the EditSegment parse_edit_decisions appends for a matched line
strict_decision(line, segs) ==
    LET span == resolve_range(start_index(line), end_index(line), segs)
        action == IF upper(line.tag) = "KEEP" THEN KEEP ELSE REMOVE
        reason == IF action = KEEP THEN None ELSE strip(line.text)
    IN EditSegment(span.start, span.end, action, reason, span.transcript_indices)

\* a lenient parser that stores the text of every line as its reason
lenient_decision_with_text(line, segs) ==
    LET span == resolve_range(start_index(line), end_index(line), segs)
    IN EditSegment(span.start, span.end,
                   IF upper(line.tag) = "REMOVE" THEN REMOVE ELSE KEEP,
                   strip(line.text), span.transcript_indices)

\* the EditSegment _parse_ai_response appends for a matched line
lenient_decision(line, segs) ==
    LET span == resolve_range(start_index(line), end_index(line), segs)
    IN IF upper(line.tag) = "REMOVE"
       THEN EditSegment(span.start, span.end, REMOVE, strip(line.text),
                        span.transcript_indices)
       ELSE EditSegment(span.start, span.end, KEEP, None, span.transcript_indices)

RECURSIVE strict_loop(_, _, _)
\* the loop of parse_edit_decisions over the lines that are left
strict_loop(lines, segs, result) ==
    IF lines = <<>> THEN Return(result)
    ELSE LET line == Head(lines)
         IN IF ~Match(line, StrictTags)
            THEN strict_loop(Tail(lines), segs, result)
            ELSE IF IndexInvalid(start_index(line), segs)
            THEN Raise(Exc("IndexError", "Invalid start index",
                           ToString(start_index(line))))
            ELSE IF IndexInvalid(end_index(line), segs)
            THEN Raise(Exc("IndexError", "Invalid end index",
                           ToString(end_index(line))))
            ELSE strict_loop(Tail(lines), segs,
                             Append(result, strict_decision(line, segs)))

\* if not ai_response or not ai_response.strip(): return []
IsEmptyText(lines) == \A j \in 1..Len(lines) : lines[j] = BlankLine

parse_edit_decisions(text, segs) ==
    IF IsEmptyText(text) THEN Return(<<>>) ELSE strict_loop(text, segs, <<>>)

Warning(msg, i) == [msg |-> msg, index |-> ToString(i)]

RECURSIVE lenient_loop_stopping(_, _, _)
\* a lenient loop that leaves the loop at the first invalid index
lenient_loop_stopping(lines, segs, acc) ==
    IF lines = <<>> THEN acc
    ELSE LET line == Head(lines)
         IN IF ~Match(line, LenientTags)
            THEN lenient_loop_stopping(Tail(lines), segs, acc)
            ELSE IF IndexInvalid(start_index(line), segs)
                    \/ IndexInvalid(end_index(line), segs)
            THEN [acc EXCEPT !.warnings =
                     Append(@, Warning("Skipping invalid index", start_index(line)))]
            ELSE lenient_loop_stopping(Tail(lines), segs,
                     [acc EXCEPT !.result = Append(@, lenient_decision(line, segs))])

RECURSIVE lenient_loop(_, _, _)
\* the loop of _parse_ai_response over the lines that are left; acc is the
\* result list and the warnings printed so far
lenient_loop(lines, segs, acc) ==
    IF lines = <<>> THEN acc
    ELSE LET line == Head(lines)
         IN IF ~Match(line, LenientTags)
            THEN lenient_loop(Tail(lines), segs, acc)
            ELSE IF IndexInvalid(start_index(line), segs)
            THEN lenient_loop(Tail(lines), segs,
                     [acc EXCEPT !.warnings =
                         Append(@, Warning("Skipping invalid start index",
                                           start_index(line)))])
            ELSE IF IndexInvalid(end_index(line), segs)
            THEN lenient_loop(Tail(lines), segs,
                     [acc EXCEPT !.warnings =
                         Append(@, Warning("Skipping invalid end index",
                                           end_index(line)))])
            ELSE lenient_loop(Tail(lines), segs,
                     [acc EXCEPT !.result = Append(@, lenient_decision(line, segs))])

parse_ai_response(text, segs) ==
    IF IsEmptyText(text) THEN [result |-> <<>>, warnings |-> <<>>]
    ELSE lenient_loop(text, segs, [result |-> <<>>, warnings |-> <<>>])

(***************************************************************************)
(* Gap filling: _create_edl_from_ai_segments (edit_pipeline.py).           *)
(***************************************************************************)
\* covered_indices.update(seg.transcript_indices) for every AI segment
covered_indices(ai) ==
    UNION {{ai[k].transcript_indices[j] : j \in 1..Len(ai[k].transcript_indices)} :
              k \in 1..Len(ai)}

\* a gap finder that takes every index as covered
missing_indices_none(ai, all) == {}

\* all_indices - covered_indices
missing_indices(ai, all) == (0..(Len(all) - 1)) \ covered_indices(ai)

RECURSIVE sorted(_)
\* sorted(...) of a set of integers
sorted(S) ==
    IF S = {} THEN <<>> ELSE <<SetMin(S)>> \o sorted(S \ {SetMin(S)})

\* the KEEP segment made for the indices start_idx..end_idx
gap_segment(start_idx, end_idx, all) ==
    EditSegment(all[start_idx + 1].start, all[end_idx + 1].end, KEEP, None,
                index_range(start_idx, end_idx))

RECURSIVE group_consecutive(_, _, _, _, _)
\* for idx in missing_indices[1:]: extend the range or close it; then "Add
\* the last segment"
group_consecutive(rest, start_idx, end_idx, all, gaps) ==
    IF rest = <<>> THEN Append(gaps, gap_segment(start_idx, end_idx, all))
    ELSE IF Head(rest) = end_idx + 1
         THEN group_consecutive(Tail(rest), start_idx, Head(rest), all, gaps)
         ELSE group_consecutive(Tail(rest), Head(rest), Head(rest), all,
                                Append(gaps, gap_segment(start_idx, end_idx, all)))

\* a gap filler that makes one segment per missing index
gap_segments_per_index(ai, all) ==
    LET missing == sorted(missing_indices(ai, all))
    IN [k \in 1..Len(missing) |-> gap_segment(missing[k], missing[k], all)]

gap_segments(ai, all) ==
    LET missing == sorted(missing_indices(ai, all))
    IN IF missing = <<>> THEN <<>>
       ELSE group_consecutive(Tail(missing), missing[1], missing[1], all, <<>>)

create_edl_from_ai_segments(ai, all, video_path, d) ==
    EditDecisionList(video_path, sorted_by_start(ai \o gap_segments(ai, all)), d)

(***************************************************************************)
(* The texts the parsers are run on: every text of one line of any shape,  *)
(* and the texts of up to MaxLines decisions on single indices (index      *)
(* MaxTranscript is out of range for every transcript) or on the range     *)
(* 0-1, with blank lines between them.                                     *)
(***************************************************************************)
LineTags == {"KEEP", "keep", "REMOVE", "Remove", "REVIEW", "review", "NOTE"}

LineIndices == (0 - 1)..MaxTranscript

LineRanges ==
    {<<>>} \cup {<<n>> : n \in LineIndices} \cup (LineIndices \X LineIndices)

LineTexts == {"", "x", " filler words "}

OneLineTexts ==
    {<<Line(tag, range, colon, text)>> :
        tag \in LineTags, range \in LineRanges, colon \in BOOLEAN, text \in LineTexts}

DecisionLines ==
    {Line(tag, range, TRUE, "x") :
        tag \in {"KEEP", "REMOVE"},
        range \in {<<n>> : n \in 0..MaxTranscript} \cup {<<0, 1>>}}
    \cup {BlankLine}

SeveralLineTexts == SeqsUpTo(DecisionLines, MaxLines)

FullTranscripts == {TranscriptOf(layout, MaxTranscript) : layout \in TranscriptLayouts}

(***************************************************************************)
(* SpecEdit: parse_edit_decisions on its own, and the part of edit_video   *)
(* that builds the EDL and saves it.                                       *)
(***************************************************************************)
InitEdit ==
    /\ pc \in {"parse_edit_decisions", "edit_video"}
    /\ \/ transcript \in Transcripts /\ ai_response \in OneLineTexts
       \/ transcript \in FullTranscripts /\ ai_response \in SeveralLineTexts
    /\ duration \in IF pc = "edit_video" THEN ProbedDurations(transcript) ELSE {0}
    /\ edl = NoEDL
    /\ json_str = <<>>
    /\ segments = <<>>
    /\ warnings = <<>>
    /\ NoCutting
    /\ NoFiles
    /\ ret = Running

ParseEditDecisions ==
    /\ pc = "parse_edit_decisions"
    /\ ret' = parse_edit_decisions(ai_response, transcript)
    /\ pc' = "strict_done"
    /\ UNCHANGED <<edl, analysis_vars>>
    /\ UNCHANGED <<cut_vars, file_vars>>

\* use_ai=True: ai_segments, raw_response = _analyze_with_ai(...)
AnalyzeWithAi ==
    /\ pc = "edit_video"
    /\ LET parsed == parse_ai_response(ai_response, transcript)
       IN /\ segments' = parsed.result
          /\ warnings' = warnings \o parsed.warnings
    /\ pc' = "create_edl"
    /\ UNCHANGED <<edl, json_str, transcript, ai_response, duration, ret>>
    /\ UNCHANGED <<cut_vars, file_vars>>

\* if ai_segments: edl = _create_edl_from_ai_segments(...)
CreateEdlFromAiSegments ==
    /\ pc = "create_edl"
    /\ segments # <<>>
    /\ edl' = create_edl_from_ai_segments(segments, transcript, "video.mp4", duration)
    /\ warnings' = IF \A i \in 1..Len(edl'.segments) : edl'.segments[i].action = REMOVE
                   THEN Append(warnings, Warning("AI suggested removing all segments", None))
                   ELSE warnings
    /\ pc' = "save_edl"
    /\ UNCHANGED <<json_str, transcript, ai_response, duration, segments, ret>>
    /\ UNCHANGED <<cut_vars, file_vars>>

\* else: "Falling back to all-KEEP EDL"
FallBackToInitialEdl ==
    /\ pc = "create_edl"
    /\ segments = <<>>
    /\ warnings' = Append(warnings, Warning("Failed to parse AI response", None))
    /\ edl' = create_initial_edl(transcript, "video.mp4", duration)
    /\ pc' = "save_edl"
    /\ UNCHANGED <<json_str, transcript, ai_response, duration, segments, ret>>
    /\ UNCHANGED <<cut_vars, file_vars>>

\* use_ai=False: edl = _create_initial_edl(segments, video_path, duration)
UseInitialEdl ==
    /\ pc = "edit_video"
    /\ edl' = create_initial_edl(transcript, "video.mp4", duration)
    /\ pc' = "save_edl"
    /\ UNCHANGED <<analysis_vars, ret>>
    /\ UNCHANGED <<cut_vars, file_vars>>

\* f.write(edl_to_json(edl)); return result
SaveEdl ==
    /\ pc = "save_edl"
    /\ json_str' = edl_to_json(edl)
    /\ ret' = Return([video_duration |-> duration, segment_count |-> Len(transcript)])
    /\ pc' = "done"
    /\ UNCHANGED <<edl, transcript, ai_response, duration, segments, warnings>>
    /\ UNCHANGED <<cut_vars, file_vars>>

NextEdit ==
    \/ ParseEditDecisions
    \/ AnalyzeWithAi
    \/ CreateEdlFromAiSegments
    \/ FallBackToInitialEdl
    \/ UseInitialEdl
    \/ SaveEdl

SpecEdit == InitEdit /\ [][NextEdit]_vars

(***************************************************************************)
(* What the claims say of the parsers.  The strict parser has returned at  *)
(* pc = "strict_done"; the lenient parser has returned at                  *)
(* pc = "create_edl", its result in segments.                              *)
(***************************************************************************)
\* both indices of the line name a segment of the transcript
InRange(line) ==
    /\ 0 <= start_index(line) /\ start_index(line) < Len(transcript)
    /\ 0 <= end_index(line) /\ end_index(line) < Len(transcript)

\* the recognised lines of the text, and those of them that are in range
Recognised(tags) == SelectSeq(ai_response, LAMBDA l : Match(l, tags))

Accepted(tags) == SelectSeq(ai_response, LAMBDA l : Match(l, tags) /\ InRange(l))

\* [N, N+1, ..., M]
FromTo(N, M) == IF N <= M THEN [j \in 1..(M - N + 1) |-> N + j - 1] ELSE <<>>

ResolvesRanges(result, lines) ==
    /\ Len(result) = Len(lines)
    /\ \A k \in 1..Len(lines) :
          LET N == start_index(lines[k])
              M == end_index(lines[k])
          IN /\ result[k].start = transcript[N + 1].start
             /\ result[k].end = transcript[M + 1].end
             /\ result[k].transcript_indices = FromTo(N, M)

\* C14: in the result of either parser the segment of a recognised line
\* with index N, or range N-M, in range starts at transcript[N].start, ends
\* at transcript[M].end and has transcript_indices [N, ..., M], M = N for a
\* single index.
C14_RangeResolution ==
    /\ pc = "strict_done" /\ Returned(ret) =>
          ResolvesRanges(ret.value, Accepted(StrictTags))
    /\ pc = "create_edl" => ResolvesRanges(segments, Accepted(LenientTags))

\* "[KEEP] 0-2: x" on a contiguous transcript of three segments, parsed by
\* the strict parser: from the start of the first to the end of the last
C14_Witness ==
    /\ pc = "strict_done"
    /\ transcript = TranscriptOf("contiguous", 3)
    /\ ai_response = <<Line("KEEP", <<0, 2>>, TRUE, "x")>>
    /\ Returned(ret)
    /\ ret.value = <<EditSegment(0, transcript[3].end, KEEP, None, <<0, 1, 2>>)>>

\* the first index the parsers test and find out of range in a line
OffendingIndex(line) ==
    IF 0 <= start_index(line) /\ start_index(line) < Len(transcript)
    THEN end_index(line) ELSE start_index(line)

\* C15: when a recognised line has an index out of range the strict parser
\* raises IndexError at the first such line and returns no decisions, also
\* after valid lines; the lenient parser never fails, warns once per such
\* line and returns the segments of the other recognised lines, in order.
C15_OutOfRangePolicy ==
    /\ pc = "strict_done" =>
          LET lines == Recognised(StrictTags)
              bad == {k \in 1..Len(lines) : ~InRange(lines[k])}
          IN IF bad # {}
             THEN /\ Raised(ret)
                  /\ ret.exc.type = "IndexError"
                  /\ ret.exc.diag = ToString(OffendingIndex(lines[SetMin(bad)]))
                  /\ ret.value = None
             ELSE Returned(ret) /\ Len(ret.value) = Len(lines)
    /\ pc = "create_edl" =>
          LET lines == Recognised(LenientTags)
              good == Accepted(LenientTags)
          IN /\ Len(segments) = Len(good)
             /\ Len(warnings) = Len(lines) - Len(good)
             /\ \A k \in 1..Len(good) :
                   /\ segments[k].transcript_indices
                         = FromTo(start_index(good[k]), end_index(good[k]))
                   /\ segments[k].action = IF upper(good[k].tag) = "REMOVE"
                                           THEN REMOVE ELSE KEEP

\* decisions for the indices 0, 3 and 1 of a three-segment transcript: the
\* lenient parser returns the two decisions for 0 and 1 and warns once
C15_Witness ==
    /\ pc = "create_edl"
    /\ Len(transcript) = 3
    /\ ai_response = <<Line("KEEP", <<0>>, TRUE, "x"),
                       Line("REMOVE", <<3>>, TRUE, "x"),
                       Line("REMOVE", <<1>>, TRUE, "x")>>
    /\ Len(segments) = 2
    /\ segments[1].transcript_indices = <<0>>
    /\ segments[2].transcript_indices = <<1>>
    /\ Len(warnings) = 1

FollowsTagPolicy(result, lines) ==
    /\ Len(result) = Len(lines)
    /\ \A k \in 1..Len(lines) :
          /\ upper(lines[k].tag) = "KEEP" =>
                result[k].action = KEEP /\ result[k].reason = None
          /\ upper(lines[k].tag) = "REMOVE" =>
                result[k].action = REMOVE /\ result[k].reason = strip(lines[k].text)
          /\ upper(lines[k].tag) = "REVIEW" =>
                result[k].action = KEEP /\ result[k].reason = None

\* the "action" strings of the segments of a saved document
SavedActions(doc) ==
    LET segs == Member(doc, "segments").v
    IN {Member(segs[i], "action").v : i \in 1..Len(segs)}

\* C16: a KEEP line gives a KEEP segment with reason None whatever its
\* text, a REMOVE line a REMOVE segment whose reason is the trimmed text, a
\* REVIEW line of the lenient parser a KEEP segment with reason None; the
\* segments parsed, built and saved carry no action but KEEP and REMOVE.
C16_ReasonAndTagPolicy ==
    /\ pc = "strict_done" /\ Returned(ret) =>
          /\ FollowsTagPolicy(ret.value, Accepted(StrictTags))
          /\ \A k \in 1..Len(ret.value) : ret.value[k].action \in {KEEP, REMOVE}
    /\ pc = "create_edl" => FollowsTagPolicy(segments, Accepted(LenientTags))
    /\ \A k \in 1..Len(segments) : segments[k].action \in {KEEP, REMOVE}
    /\ \A k \in 1..Len(edl.segments) : edl.segments[k].action \in {KEEP, REMOVE}
    /\ pc = "done" => SavedActions(json_str) \subseteq {"keep", "remove"}

\* a lower-case [review] line has been parsed into a KEEP segment without
\* a reason and saved as "keep"
C16_Witness ==
    /\ pc = "done"
    /\ ai_response = <<Line("review", <<0>>, TRUE, " filler words ")>>
    /\ Len(transcript) = 1
    /\ segments = <<EditSegment(transcript[1].start, transcript[1].end, KEEP, None, <<0>>)>>
    /\ SavedActions(json_str) = {"keep"}

(***************************************************************************)
(* What the claims say of gap filling.  The EDL has just been built from   *)
(* the parsed decisions at pc = "save_edl" with segments non-empty.        *)
(***************************************************************************)
GapFilled == pc = "save_edl" /\ segments # <<>>

TranscriptIndices == 0..(Len(transcript) - 1)

IndicesOf(seg) == {seg.transcript_indices[j] : j \in 1..Len(seg.transcript_indices)}

\* the transcript indices that no parsed decision lists
Uncovered == {i \in TranscriptIndices : \A k \in 1..Len(segments) : i \notin IndicesOf(segments[k])}

\* the maximal runs a..b of consecutive uncovered indices
MaximalRuns ==
    {r \in TranscriptIndices \X TranscriptIndices :
        /\ r[1] <= r[2]
        /\ \A i \in r[1]..r[2] : i \in Uncovered
        /\ (r[1] - 1) \notin Uncovered
        /\ (r[2] + 1) \notin Uncovered}

Synthesized(r) ==
    EditSegment(transcript[r[1] + 1].start, transcript[r[2] + 1].end, KEEP, None,
                FromTo(r[1], r[2]))

Occurrences(x, seq) == Cardinality({k \in 1..Len(seq) : seq[k] = x})

\* C17: the EDL built from the parsed decisions holds the parsed segments
\* and, for every maximal run of uncovered transcript indices, exactly one
\* KEEP segment with reason None from the start of the run's first
\* transcript segment to the end of its last, listing the run; the list is
\* sorted by start and every transcript index is listed by some segment.
C17_GapFilling ==
    GapFilled =>
        /\ Len(edl.segments) = Len(segments) + Cardinality(MaximalRuns)
        /\ \A k \in 1..Len(edl.segments) :
              Occurrences(edl.segments[k], edl.segments)
                  = Occurrences(edl.segments[k], segments)
                    + Cardinality({r \in MaximalRuns : Synthesized(r) = edl.segments[k]})
        /\ \A r \in MaximalRuns : Occurrences(Synthesized(r), edl.segments) >= 1
        /\ \A k \in 1..(Len(edl.segments) - 1) :
              edl.segments[k].start <= edl.segments[k + 1].start
        /\ \A i \in TranscriptIndices :
              \E k \in 1..Len(edl.segments) : i \in IndicesOf(edl.segments[k])

\* one decision, for the last of three transcript segments: the indices 0
\* and 1 form one run and get one KEEP segment in front of the decision
C17_Witness ==
    /\ GapFilled
    /\ Len(transcript) = 3
    /\ Len(segments) = 1
    /\ segments[1].transcript_indices = <<2>>
    /\ segments[1].action = REMOVE
    /\ MaximalRuns = {<<0, 1>>}
    /\ edl.segments = <<Synthesized(<<0, 1>>), segments[1]>>

\* each transcript segment ends where the next starts
NoGaps(segs) == \A i \in 1..(Len(segs) - 1) : segs[i].end = segs[i + 1].start

\* every instant from a up to, not including, b lies in a segment of the EDL
CoversFromTo(a, b) ==
    \A t \in a..(b - 1) :
        \E k \in 1..Len(edl.segments) :
            edl.segments[k].start <= t /\ t < edl.segments[k].end

\* C18 as stated: when the transcript has no gaps the gap-filled EDL covers
\* [0, total_duration).
C18_CoversWholeVideo ==
    GapFilled /\ NoGaps(transcript) => CoversFromTo(0, edl.total_duration)

\* C18: when the transcript has no gaps the gap-filled EDL covers the time
\* from the start of the first transcript segment to the end of the last,
\* hence [0, total_duration) when the transcript starts at 0 and ends at
\* total_duration or later.
C18_CoversTranscriptSpan ==
    GapFilled /\ NoGaps(transcript) =>
        /\ CoversFromTo(transcript[1].start, transcript[Len(transcript)].end)
        /\ transcript[1].start = 0 /\ transcript[Len(transcript)].end >= edl.total_duration
              => CoversFromTo(0, edl.total_duration)

\* a transcript of three segments from 0 to the probed duration, one of
\* them decided on: the EDL covers the whole video
C18_Witness ==
    /\ GapFilled
    /\ transcript = TranscriptOf("contiguous", 3)
    /\ duration = transcript[3].end
    /\ Len(segments) = 1
    /\ segments[1].transcript_indices = <<1>>
    /\ Len(edl.segments) = 3
    /\ CoversFromTo(0, edl.total_duration)

(***************************************************************************)
(* merge_adjacent_segments (edit_analyzer.py).                             *)
(***************************************************************************)
MaxMerge == 4       \* longest list handed to merge_adjacent_segments

\* a fresh EditSegment with the fields of the argument
copy_of(segment) ==
    EditSegment(segment.start, segment.end, segment.action, segment.reason,
                segment.transcript_indices)

\* a merge that takes the reason of the segment it absorbs
extended_with_last_reason(current, segment) ==
    EditSegment(current.start, segment.end, current.action, segment.reason,
                current.transcript_indices \o segment.transcript_indices)

\* "Merge: extend end time and add indices", the first reason is kept
extended(current, segment) ==
    EditSegment(current.start, segment.end, current.action, current.reason,
                current.transcript_indices \o segment.transcript_indices)

RECURSIVE merge_loop_keeping_first_indices(_, _, _)
\* a loop that extends the end time and forgets the absorbed indices
merge_loop_keeping_first_indices(rest, current, result) ==
    IF rest = <<>> THEN Append(result, current)
    ELSE IF Head(rest).action = current.action
         THEN merge_loop_keeping_first_indices(
                  Tail(rest), [current EXCEPT !.end = Head(rest).end], result)
         ELSE merge_loop_keeping_first_indices(
                  Tail(rest), copy_of(Head(rest)), Append(result, current))

RECURSIVE merge_loop(_, _, _)
\* for segment in segments[1:], then "Don't forget the last segment"
merge_loop(rest, current, result) ==
    IF rest = <<>> THEN Append(result, current)
    ELSE IF Head(rest).action = current.action
         THEN merge_loop(Tail(rest), extended(current, Head(rest)), result)
         ELSE merge_loop(Tail(rest), copy_of(Head(rest)), Append(result, current))

merge_adjacent_segments(segs) ==
    IF segs = <<>> THEN <<>> ELSE merge_loop(Tail(segs), copy_of(segs[1]), <<>>)

\* the lists that are merged: times that neither touch nor ascend, reasons
\* that differ inside a run, index lists that share an index
MergeSegments ==
    {EditSegment(t[1], t[2], a, d[1], d[2]) :
        t \in {<<0, 1>>, <<3, 5>>}, a \in EditAction,
        d \in {<<None, <<0>>>>, <<"filler", <<1, 2>>>>, <<"retake", <<0>>>>}}

MergeInputs == SeqsUpTo(MergeSegments, MaxMerge)

InitMerge ==
    /\ pc = "merge_adjacent_segments"
    /\ segments \in MergeInputs
    /\ edl = NoEDL
    /\ json_str = <<>>
    /\ transcript = <<>>
    /\ ai_response = <<>>
    /\ duration = 0
    /\ warnings = <<>>
    /\ NoCutting
    /\ NoFiles
    /\ ret = Running

MergeAdjacentSegments ==
    /\ pc = "merge_adjacent_segments"
    /\ ret' = Return(merge_adjacent_segments(segments))
    /\ pc' = "merged"
    /\ UNCHANGED <<edl, analysis_vars>>
    /\ UNCHANGED <<cut_vars, file_vars>>

\* the list that was returned is merged again
MergeTheMerged ==
    /\ pc = "merged"
    /\ segments' = ret.value
    /\ ret' = Return(merge_adjacent_segments(ret.value))
    /\ pc' = "merged_twice"
    /\ UNCHANGED <<edl, json_str, transcript, ai_response, duration, warnings>>
    /\ UNCHANGED <<cut_vars, file_vars>>

NextMerge ==
    \/ MergeAdjacentSegments
    \/ MergeTheMerged

SpecMerge == InitMerge /\ [][NextMerge]_vars

\* the positions of the input at which a run of one action starts
RunStarts == {i \in 1..Len(segments) : i = 1 \/ segments[i].action # segments[i - 1].action}

\* the first and the last position of the k-th run
RunStart(k) == CHOOSE a \in RunStarts : Cardinality({x \in RunStarts : x < a}) = k - 1

RunEnd(k) == IF k = Cardinality(RunStarts) THEN Len(segments) ELSE RunStart(k + 1) - 1

RECURSIVE IndicesFromTo(_, _, _)
\* the index lists of segs[a..b], one after the other
IndicesFromTo(segs, a, b) ==
    IF a > b THEN <<>>
    ELSE segs[a].transcript_indices \o IndicesFromTo(segs, a + 1, b)

\* C19: the output has one segment per maximal run of consecutive input
\* segments of one action, in input order, and no two neighbours of the
\* output share an action; the segment of a run has the start of the run's
\* first segment, the end of its last, the action of the run, the reason
\* of its first segment and the run's index lists in order; an empty list
\* gives an empty list.
C19_RunLengthMerging ==
    pc = "merged" =>
        /\ Returned(ret)
        /\ Len(ret.value) = Cardinality(RunStarts)
        /\ \A k \in 1..Len(ret.value) :
              /\ ret.value[k].start = segments[RunStart(k)].start
              /\ ret.value[k].end = segments[RunEnd(k)].end
              /\ ret.value[k].action = segments[RunStart(k)].action
              /\ ret.value[k].reason = segments[RunStart(k)].reason
              /\ ret.value[k].transcript_indices
                    = IndicesFromTo(segments, RunStart(k), RunEnd(k))
        /\ \A k \in 1..(Len(ret.value) - 1) :
              ret.value[k].action # ret.value[k + 1].action
        /\ segments = <<>> => ret.value = <<>>

\* two KEEP segments whose times descend and whose reasons differ, then a
\* REMOVE: the first output runs from 3 to 1 with the first reason
C19_Witness ==
    /\ pc = "merged"
    /\ segments = <<EditSegment(3, 5, KEEP, "filler", <<1, 2>>),
                    EditSegment(0, 1, KEEP, "retake", <<0>>),
                    EditSegment(0, 1, REMOVE, None, <<0>>)>>
    /\ ret.value = <<EditSegment(3, 1, KEEP, "filler", <<1, 2, 0>>),
                     EditSegment(0, 1, REMOVE, None, <<0>>)>>

\* the transcript indices a list of segments names
IndicesIn(segs) == UNION {IndicesOf(segs[k]) : k \in 1..Len(segs)}

\* the number of segments of the list that name index i
Listing(segs, i) == Cardinality({k \in 1..Len(segs) : i \in IndicesOf(segs[k])})

\* C20 as stated: merging a merged list changes nothing, and every
\* transcript index of the input is in exactly one output segment.
C20_IdempotentEachIndexOnce ==
    /\ pc = "merged_twice" => ret.value = segments
    /\ pc = "merged" => \A i \in IndicesIn(segments) : Listing(ret.value, i) = 1

\* C20: merging a merged list changes nothing; merging neither loses nor
\* adds an index: the index lists of the output, one after the other, are
\* those of the input, so an index that exactly one input segment names is
\* in exactly one output segment.
C20_IdempotentPreservesIndices ==
    /\ pc = "merged_twice" => ret.value = segments
    /\ pc = "merged" =>
          /\ IndicesFromTo(ret.value, 1, Len(ret.value))
                = IndicesFromTo(segments, 1, Len(segments))
          /\ \A i \in IndicesIn(segments) :
                Listing(segments, i) = 1 => Listing(ret.value, i) = 1

\* a list of two runs has been merged and the result merged again
C20_Witness ==
    /\ pc = "merged_twice"
    /\ Len(segments) = 2
    /\ segments[1].transcript_indices = <<0, 1, 2>>
    /\ segments[2].action = REMOVE
    /\ ret.value = segments

(***************************************************************************)
(* Subtitle remapping: adjust_srt_for_edl(srt_path, edl, output_path).     *)
(* edit_pipeline.py imports it from scripts.video_cutter, whose source     *)
(* does not define it; it is modelled from the description of the          *)
(* subtitle remapper and from the tests of TestAdjustSrtForEdl.            *)
(***************************************************************************)
MaxSubtitles == 2   \* most entries in a subtitle file
MaxSubTime == 3     \* latest time in a subtitle file and in the EDL remapped to
MaxKeeps == 2       \* longest EDL a subtitle file is remapped to

Max(a, b) == IF a >= b THEN a ELSE b

Min(a, b) == IF a <= b THEN a ELSE b

\* an entry of a subtitle file
SubtitleEntry(n, s, e, tx) == [number |-> n, start |-> s, end |-> e, text |-> tx]

\* the part of a subtitle outside the KEEP window is kept, moved by the offset
shifted_entry(sub, keep, offset) ==
    SubtitleEntry(sub.number, sub.start - keep.start + offset,
                  sub.end - keep.start + offset, sub.text)

\* the part of sub inside the KEEP window, in the time of the cut video
overlap_entry(sub, keep, offset) ==
    SubtitleEntry(sub.number,
                  Max(sub.start, keep.start) - keep.start + offset,
                  Min(sub.end, keep.end) - keep.start + offset,
                  sub.text)

\* the walk over the KEEP segments for one subtitle; offset is the running
\* output clock before Head(keeps)
RECURSIVE entries_of_subtitle(_, _, _)
entries_of_subtitle(sub, keeps, offset) ==
    IF keeps = <<>> THEN <<>>
    ELSE LET keep == Head(keeps)
             rest == entries_of_subtitle(sub, Tail(keeps),
                                         offset + (keep.end - keep.start))
         IN IF sub.start < keep.end /\ sub.end > keep.start
            THEN <<overlap_entry(sub, keep, offset)>> \o rest
            ELSE rest

RECURSIVE remapped_entries(_, _)
remapped_entries(subs, keeps) ==
    IF subs = <<>> THEN <<>>
    ELSE entries_of_subtitle(Head(subs), keeps, 0)
            \o remapped_entries(Tail(subs), keeps)

\* output entries that keep the numbers of the source file
numbered_as_in_source(entries) == entries

\* output entries are numbered from 1
renumbered(entries) ==
    [i \in 1..Len(entries) |->
        SubtitleEntry(i, entries[i].start, entries[i].end, entries[i].text)]

\* the entries adjust_srt_for_edl writes to output_path
adjust_srt_for_edl(subs, e) == renumbered(remapped_entries(subs, keep_segments(e)))

\* segments with start < end anywhere in [0, MaxSubTime]
RemapSegments ==
    {EditSegment(t[1], t[2], a, None, <<>>) :
        t \in {u \in (0..MaxSubTime) \X (0..MaxSubTime) : u[1] < u[2]},
        a \in EditAction}

RemapEDLs ==
    {EditDecisionList("video.mp4", segs, MaxSubTime) :
        segs \in SeqsUpTo(RemapSegments, MaxKeeps)}

SubtitleTexts == <<"A", "B", "C", "D">>

\* subtitle files in time order, one entry ending before the next starts;
\* the source numbers are even, so they are never 1, 2, ..., n
OrderedTimes ==
    {u \in SeqsUpTo((0..MaxSubTime) \X (0..MaxSubTime), MaxSubtitles) :
        /\ \A i \in 1..Len(u) : u[i][1] < u[i][2]
        /\ \A i \in 1..(Len(u) - 1) : u[i][2] <= u[i + 1][1]}

SubtitleTracks ==
    {[i \in 1..Len(u) |-> SubtitleEntry(2 * i, u[i][1], u[i][2], SubtitleTexts[i])] :
        u \in OrderedTimes}

InitRemap ==
    /\ pc = "adjust_srt_for_edl"
    /\ edl \in RemapEDLs
    /\ srt_exists \in {TRUE, FALSE}
    /\ subtitles \in IF srt_exists THEN SubtitleTracks ELSE {<<>>}
    /\ srt_path = "input.srt"
    /\ edl_exists = TRUE
    /\ srt_lines = <<>>
    /\ srt_output = NoSrtOutput
    /\ temp_audio = FALSE
    /\ temp_audio_path = None
    /\ subtitle_format = "srt"
    /\ caller = None
    /\ ret = Running
    /\ NoCutting
    /\ NoAnalysis

\* adjust_srt_for_edl on a subtitle file that exists
AdjustSrtForEdl ==
    /\ pc = "adjust_srt_for_edl"
    /\ srt_exists = TRUE
    /\ srt_output' = [written |-> TRUE,
                      entries |-> adjust_srt_for_edl(subtitles, edl)]
    /\ ret' = Return("output.srt")
    /\ pc' = "remapped"
    /\ UNCHANGED <<edl, edl_exists, srt_path, srt_exists, srt_lines, subtitles,
                   temp_audio, temp_audio_path, subtitle_format, caller>>
    /\ UNCHANGED <<cut_vars, analysis_vars>>

\* adjust_srt_for_edl on a subtitle file that does not exist
AdjustSrtNotFound ==
    /\ pc = "adjust_srt_for_edl"
    /\ srt_exists = FALSE
    /\ ret' = Raise(Exc("FileNotFoundError", "SRT file not found", None))
    /\ pc' = "remapped"
    /\ UNCHANGED <<edl, file_vars>>
    /\ UNCHANGED <<cut_vars, analysis_vars>>

NextRemap ==
    \/ AdjustSrtForEdl
    \/ AdjustSrtNotFound

SpecRemap == InitRemap /\ [][NextRemap]_vars

\* the pairs (subtitle, KEEP segment) that overlap, by position
OverlappingPairs ==
    {p \in (1..Len(subtitles)) \X (1..Len(keep_segments(edl))) :
        Intersect(subtitles[p[1]], keep_segments(edl)[p[2]])}

\* the summed durations of the KEEP segments before the k-th
OffsetBefore(k) == sum_of_lengths(SubSeq(keep_segments(edl), 1, k - 1))

\* what the overlap of subtitle p[1] with KEEP segment p[2] becomes
Trimmed(p) ==
    LET sub == subtitles[p[1]]
        keep == keep_segments(edl)[p[2]]
    IN [start |-> Max(sub.start, keep.start) - keep.start + OffsetBefore(p[2]),
        end |-> Min(sub.end, keep.end) - keep.start + OffsetBefore(p[2]),
        text |-> sub.text]

Timing(entry) == [start |-> entry.start, end |-> entry.end, text |-> entry.text]

\* C21: once the subtitles are remapped, every subtitle that overlaps a
\* KEEP segment has an output entry with its text, starting at
\* max(sub.start, keep.start) - keep.start + offset and ending at
\* min(sub.end, keep.end) - keep.start + offset, where offset is the summed
\* duration of the KEEP segments before that one in EDL order: one output
\* entry for each overlapping pair.
C21_TrimmedAndShifted ==
    (pc = "remapped" /\ Returned(ret)) =>
        \A p \in OverlappingPairs :
            Cardinality({j \in 1..Len(srt_output.entries) : Timing(srt_output.entries[j]) = Trimmed(p)})
                >= Cardinality({q \in OverlappingPairs : Trimmed(q) = Trimmed(p)})

\* the subtitle [0,2) with KEEP [0,1) and KEEP [2,3) became [0,1), and the
\* subtitle [2,3) became [1,2)
C21_Witness ==
    /\ pc = "remapped"
    /\ Len(subtitles) = 2
    /\ Len(edl.segments) = 2
    /\ Timing(subtitles[1]) = [start |-> 0, end |-> 2, text |-> "A"]
    /\ Timing(subtitles[2]) = [start |-> 2, end |-> 3, text |-> "B"]
    /\ edl.segments[1].start = 0 /\ edl.segments[1].end = 1
    /\ edl.segments[2].start = 2 /\ edl.segments[2].end = 3
    /\ keep_segments(edl) = edl.segments
    /\ Len(srt_output.entries) = 2
    /\ Timing(srt_output.entries[1]) = [start |-> 0, end |-> 1, text |-> "A"]
    /\ Timing(srt_output.entries[2]) = [start |-> 1, end |-> 2, text |-> "B"]

ApplyTracks ==
    {t \in SubtitleTracks :
        /\ Len(t) = MaxSubtitles
        /\ \A i \in 1..Len(t) : t[i].start = i - 1 /\ t[i].end = i}

InitApply ==
    /\ pc = "apply_edl_to_video"
    /\ caller = "apply_edl_to_video"
    /\ video_exists \in BOOLEAN
    /\ edl_exists \in BOOLEAN
    /\ json_str \in IF edl_exists THEN {edl_to_json(e) : e \in CutEDLs} ELSE {<<>>}
    /\ edl = NoEDL
    /\ output_path \in {None, "out.mp4"}
    /\ srt_path \in {None, "input.srt"}
    /\ srt_exists \in IF srt_path = None THEN {FALSE} ELSE BOOLEAN
    /\ subtitles \in IF srt_exists THEN ApplyTracks ELSE {<<>>}
    /\ srt_lines = <<>>
    /\ srt_output = NoSrtOutput
    /\ temp_audio = FALSE
    /\ temp_audio_path = None
    /\ subtitle_format = "srt"
    /\ tmp_output = FALSE
    /\ procs = <<>>
    /\ temp_dir = NoTempDir
    /\ segment_files = <<>>
    /\ corrections = <<>>
    /\ transcript = <<>>
    /\ ai_response = <<>>
    /\ duration = 0
    /\ segments = <<>>
    /\ warnings = <<>>
    /\ ret = Running

\* if not os.path.exists(video_path): raise FileNotFoundError
ApplyCheckVideo ==
    /\ pc = "apply_edl_to_video"
    /\ IF video_exists
       THEN pc' = "apply_check_edl" /\ ret' = ret
       ELSE pc' = "applied"
            /\ ret' = Raise(Exc("FileNotFoundError", "Video file not found", None))
    /\ UNCHANGED <<edl, cut_vars, analysis_vars, file_vars>>

\* if not os.path.exists(edl_path): raise FileNotFoundError
ApplyCheckEdl ==
    /\ pc = "apply_check_edl"
    /\ IF edl_exists
       THEN pc' = "apply_load_edl" /\ ret' = ret
       ELSE pc' = "applied"
            /\ ret' = Raise(Exc("FileNotFoundError", "EDL file not found", None))
    /\ UNCHANGED <<edl, cut_vars, analysis_vars, file_vars>>

\* edl_data = json.load(f); edl = edl_from_dict(edl_data); then the call
\* cut_video(video_path, edl, output_path) begins
ApplyLoadEdl ==
    /\ pc = "apply_load_edl"
    /\ LET r == edl_from_dict(json_str)
       IN IF Raised(r)
          THEN pc' = "applied" /\ ret' = r /\ edl' = edl
          ELSE pc' = "cut_video" /\ ret' = ret /\ edl' = r.value
    /\ UNCHANGED <<cut_vars, analysis_vars, file_vars>>

\* cut_video has returned or raised: an exception leaves apply_edl_to_video,
\* a path is returned as it is when srt_path is None
ApplyAfterCut ==
    /\ pc = "done"
    /\ caller = "apply_edl_to_video"
    /\ pc' = IF Returned(ret) /\ srt_path # None THEN "apply_adjust_srt" ELSE "applied"
    /\ UNCHANGED <<edl, cut_vars, analysis_vars, file_vars, ret>>

\* adjusted_srt_path = adjust_srt_for_edl(srt_path, edl, srt_output_path);
\* return {"video_path": ..., "srt_path": ...}
ApplyAdjustSrt ==
    /\ pc = "apply_adjust_srt"
    /\ IF srt_exists
       THEN /\ srt_output' = [written |-> TRUE,
                              entries |-> adjust_srt_for_edl(subtitles, edl)]
            /\ ret' = Return([video_path |-> ret.value, srt_path |-> "out.srt"])
       ELSE /\ srt_output' = srt_output
            /\ ret' = Raise(Exc("FileNotFoundError", "SRT file not found", None))
    /\ pc' = "applied"
    /\ UNCHANGED <<edl, edl_exists, srt_path, srt_exists, srt_lines, subtitles,
                   temp_audio, temp_audio_path, subtitle_format, caller>>
    /\ UNCHANGED <<cut_vars, analysis_vars>>

NextApply ==
    \/ ApplyCheckVideo
    \/ ApplyCheckEdl
    \/ ApplyLoadEdl
    \/ Next
    \/ ApplyAfterCut
    \/ ApplyAdjustSrt

SpecApply == InitApply /\ [][NextApply]_vars

\* a file the call refers to does not exist
SomeFileMissing ==
    \/ ~video_exists
    \/ ~edl_exists
    \/ srt_path # None /\ ~srt_exists

\* C23: when the video, the EDL document or the subtitle file named in the
\* call does not exist, apply_edl_to_video never parses the EDL document
\* and never runs the media tool, and what it raises is the not-found
\* failure; with a missing subtitle file the video is not cut.
C23_NotFoundComesFirst ==
    SomeFileMissing =>
        /\ edl = NoEDL
        /\ procs = <<>>
        /\ pc = "applied" =>
              Raised(ret) /\ ret.exc.type = "FileNotFoundError"

(***************************************************************************)
(* process_video(video_path, output_path, subtitle_format) of pipeline.py  *)
(* with extract_audio of audio_extractor.py: audio to a temporary WAV      *)
(* file, transcription, subtitle file, removal of the temporary file.      *)
(***************************************************************************)
SUPPORTED_SUBTITLE_FORMATS == {"srt", "vtt"}

\* derive_output_path(video_path, f".{subtitle_format}")
derive_output_path(format) == IF format = "vtt" THEN "video.vtt" ELSE "video.srt"

\* the except clauses of _check_ffmpeg_available of audio_extractor.py
audio_check_ffmpeg_available(outcome, err) ==
    IF outcome = "not found"
    THEN Exc("AudioExtractionError", "ffmpeg is not installed or not found in PATH", None)
    ELSE IF outcome = "nonzero"
    THEN IF err = BadBytes
         THEN Exc("UnicodeDecodeError", "'utf-8' codec can't decode byte", None)
         ELSE Exc("AudioExtractionError", "ffmpeg check failed",
                  IF err = "" THEN "Unknown error" ELSE err)
    ELSE NoExc

\* the except clauses of extract_audio, applied to an exception x raised in
\* its try block
extract_audio_except(x) ==
    IF x.type = "ffmpeg.Error"
    THEN IF x.diag = BadBytes
         THEN Exc("UnicodeDecodeError", "'utf-8' codec can't decode byte", None)
         ELSE Exc("AudioExtractionError", "Failed to extract audio",
                  IF x.diag = "" THEN "Unknown error" ELSE x.diag)
    ELSE IF x.type = "AudioExtractionError"
    THEN x
    ELSE Exc("AudioExtractionError", "Failed to extract audio", x.msg)

\* write_srt and write_vtt number the segments from 1
written_entries(segs) ==
    [i \in 1..Len(segs) |-> SubtitleEntry(i, segs[i].start, segs[i].end, segs[i].text)]

InitProcess ==
    /\ pc = "process_video"
    /\ subtitle_format \in {"srt", "vtt", "ass"}
    /\ video_exists \in BOOLEAN
    /\ output_path \in {None, "subtitles.srt"}
    /\ temp_audio = FALSE
    /\ temp_audio_path = None
    /\ edl = NoEDL
    /\ edl_exists = TRUE
    /\ srt_path = None
    /\ srt_exists = FALSE
    /\ srt_lines = <<>>
    /\ subtitles = <<>>
    /\ srt_output = NoSrtOutput
    /\ caller = None
    /\ tmp_output = FALSE
    /\ procs = <<>>
    /\ temp_dir = NoTempDir
    /\ segment_files = <<>>
    /\ corrections = <<>>
    /\ NoAnalysis
    /\ ret = Running

\* if subtitle_format not in SUPPORTED_SUBTITLE_FORMATS: raise ValueError
ProcessCheckFormat ==
    /\ pc = "process_video"
    /\ IF subtitle_format \in SUPPORTED_SUBTITLE_FORMATS
       THEN pc' = "process_check_video" /\ ret' = ret
       ELSE pc' = "processed"
            /\ ret' = Raise(Exc("ValueError", "Invalid subtitle format", None))
    /\ UNCHANGED <<edl, cut_vars, analysis_vars, file_vars>>

\* if not os.path.exists(video_path): raise FileNotFoundError
ProcessCheckVideo ==
    /\ pc = "process_check_video"
    /\ IF video_exists
       THEN pc' = "derive_output_path" /\ ret' = ret
       ELSE pc' = "processed"
            /\ ret' = Raise(Exc("FileNotFoundError", "Video file not found", None))
    /\ UNCHANGED <<edl, cut_vars, analysis_vars, file_vars>>

\* if output_path is None: output_path = derive_output_path(...);
\* temp_audio_path = None
ProcessDeriveOutputPath ==
    /\ pc = "derive_output_path"
    /\ output_path' = IF output_path = None THEN derive_output_path(subtitle_format)
                      ELSE output_path
    /\ temp_audio_path' = None
    /\ pc' = "extract_audio"
    /\ UNCHANGED <<edl, video_exists, tmp_output, procs, temp_dir, segment_files,
                   corrections, ret>>
    /\ UNCHANGED <<edl_exists, srt_path, srt_exists, srt_lines, subtitles, srt_output,
                   temp_audio, subtitle_format, caller>>
    /\ UNCHANGED analysis_vars

\* temp_audio_path = extract_audio(video_path): mkstemp makes the WAV file,
\* then ffmpeg is checked and run; temp_audio_path is assigned only when
\* extract_audio returns
ExtractAudio ==
    /\ pc = "extract_audio"
    /\ temp_audio' = TRUE
    /\ \E check \in {"ok", "not found", "nonzero"} :
       \E run \in (IF check = "ok" THEN {"ok", "nonzero"} ELSE {"not run"}) :
       \E err \in (IF "nonzero" \in {check, run} THEN Stderr ELSE {""}) :
          LET x == audio_check_ffmpeg_available(check, err)
              version == Proc("version", None, check, IF check = "nonzero" THEN err ELSE "")
              extract == Proc("extract_audio", "tmp.wav", run, err)
          IN IF x # NoExc
             THEN /\ procs' = Append(procs, version)
                  /\ ret' = Raise(extract_audio_except(x))
                  /\ temp_audio_path' = temp_audio_path
                  /\ pc' = "process_finally"
             ELSE /\ procs' = procs \o <<version, extract>>
                  /\ IF run = "ok"
                     THEN /\ ret' = ret
                          /\ temp_audio_path' = "tmp.wav"
                          /\ pc' = "transcribe"
                     ELSE /\ ret' = Raise(extract_audio_except(
                                            Exc("ffmpeg.Error", "ffmpeg error", err)))
                          /\ temp_audio_path' = temp_audio_path
                          /\ pc' = "process_finally"
    /\ UNCHANGED <<edl, video_exists, output_path, tmp_output, temp_dir, segment_files,
                   corrections>>
    /\ UNCHANGED <<edl_exists, srt_path, srt_exists, srt_lines, subtitles, srt_output,
                   subtitle_format, caller>>
    /\ UNCHANGED analysis_vars

\* segments = transcribe(temp_audio_path, ...)
Transcribe ==
    /\ pc = "transcribe"
    /\ \/ \E segs \in Transcripts :
             /\ transcript' = segs
             /\ pc' = "check_segments"
             /\ ret' = ret
       \/ /\ transcript' = transcript
          /\ pc' = "process_finally"
          /\ ret' = Raise(Exc("TranscriptionError", "Failed to transcribe", None))
    /\ UNCHANGED <<edl, cut_vars, file_vars>>
    /\ UNCHANGED <<json_str, ai_response, duration, segments, warnings>>

\* if not segments: raise ValueError
ProcessCheckSegments ==
    /\ pc = "check_segments"
    /\ IF transcript = <<>>
       THEN pc' = "process_finally"
            /\ ret' = Raise(Exc("ValueError", "Transcription returned empty segments", None))
       ELSE pc' = "write_subtitles" /\ ret' = ret
    /\ UNCHANGED <<edl, cut_vars, analysis_vars, file_vars>>

\* write_vtt(segments, output_path) or write_srt(segments, output_path);
\* return output_path.  open() may fail with OSError.
WriteSubtitles ==
    /\ pc = "write_subtitles"
    /\ \/ /\ srt_output' = [written |-> TRUE, entries |-> written_entries(transcript)]
          /\ ret' = Return(output_path)
       \/ /\ srt_output' = srt_output
          /\ ret' = Raise(Exc("OSError", "Permission denied", None))
    /\ pc' = "process_finally"
    /\ UNCHANGED <<edl, cut_vars, analysis_vars>>
    /\ UNCHANGED <<edl_exists, srt_path, srt_exists, srt_lines, subtitles, temp_audio,
                   temp_audio_path, subtitle_format, caller>>

\* finally: if temp_audio_path is not None and os.path.exists(temp_audio_path):
\*              os.remove(temp_audio_path)
ProcessFinally ==
    /\ pc = "process_finally"
    /\ temp_audio' = IF temp_audio_path # None /\ temp_audio THEN FALSE ELSE temp_audio
    /\ pc' = "processed"
    /\ UNCHANGED <<edl, cut_vars, analysis_vars, ret>>
    /\ UNCHANGED <<edl_exists, srt_path, srt_exists, srt_lines, subtitles, srt_output,
                   temp_audio_path, subtitle_format, caller>>

NextProcess ==
    \/ ProcessCheckFormat
    \/ ProcessCheckVideo
    \/ ProcessDeriveOutputPath
    \/ ExtractAudio
    \/ Transcribe
    \/ ProcessCheckSegments
    \/ WriteSubtitles
    \/ ProcessFinally

SpecProcess == InitProcess /\ [][NextProcess]_vars

\* C24: when process_video has returned or raised, the temporary audio
\* file that audio extraction made for it no longer exists, whichever way
\* the call ended.
C24_TempAudioReleased == pc = "processed" => temp_audio = FALSE

(***************************************************************************)
(* edit_video with use_ai=True when the response yields no decision.       *)
(***************************************************************************)
\* edit_video printed "Failed to parse AI response. Falling back to all-KEEP EDL."
FellBack ==
    \E i \in 1..Len(warnings) : warnings[i].msg = "Failed to parse AI response"

\* one KEEP segment per transcript segment, in order, naming its index
IsAllKeepOfTranscript(e) ==
    /\ e.source_video = "video.mp4"
    /\ e.total_duration = duration
    /\ Len(e.segments) = Len(transcript)
    /\ \A i \in 1..Len(transcript) :
          /\ e.segments[i].start = transcript[i].start
          /\ e.segments[i].end = transcript[i].end
          /\ e.segments[i].action = KEEP
          /\ e.segments[i].reason = None
          /\ e.segments[i].transcript_indices = <<i - 1>>

\* C25: whenever edit_video has no parsed decision, because the lenient
\* parser returned none for the response or because no analysis was asked
\* for, the EDL it builds is the all-KEEP EDL of the transcript, one KEEP
\* segment per transcript segment with transcript_indices [i], and the
\* document it saves is that EDL: the fallback EDL is the one of
\* use_ai=False.
C25_FallbackIsAllKeep ==
    /\ (pc \in {"save_edl", "done"} /\ segments = <<>>) => IsAllKeepOfTranscript(edl)
    /\ (pc = "done" /\ segments = <<>>) =>
          /\ edl_from_json(json_str).value = edl
          /\ json_str = edl_to_json(create_initial_edl(transcript, "video.mp4", duration))
    /\ (pc \in {"save_edl", "done"} /\ FellBack) => segments = <<>>
    /\ (pc = "create_edl" /\ segments = <<>>)
          => parse_ai_response(ai_response, transcript).result = <<>>

\* a response of three lines, none of them a usable decision, for a
\* transcript of three segments: the all-KEEP EDL has been saved
C25_Witness ==
    /\ pc = "done"
    /\ FellBack
    /\ Len(transcript) = 3
    /\ Len(ai_response) = 3
    /\ Len(edl.segments) = 3
    /\ edl.segments[3].transcript_indices = <<2>>

(***************************************************************************)
(* What cut_video renders, against the REMOVE segments of the EDL.         *)
(***************************************************************************)
\* the source ranges [start, end) a run of the media tool reads
RangesReadBy(proc) ==
    IF proc.cmd = "filter_complex"
    THEN {[start |-> proc.args.trims[j].start, end |-> proc.args.trims[j].end] :
             j \in 1..Len(proc.args.trims)}
    ELSE IF proc.cmd = "cut_segment"
    THEN {[start |-> proc.args.ss, end |-> proc.args.ss + proc.args.t]}
    ELSE {}

\* C26: every range of the source that cut_video hands to the media tool,
\* in the filter graph or as a segment cut, is disjoint from the
\* [start, end) of every REMOVE segment of the EDL.
C26_RemovedNeverRendered ==
    \A i \in 1..Len(procs) :
        \A r \in RangesReadBy(procs[i]) :
            \A k \in 1..Len(remove_segments(edl)) :
                ~Intersect(r, remove_segments(edl)[k])

(***************************************************************************)
(* The strict and the lenient parser on the same text.                     *)
(***************************************************************************)
NoReviewLine == \A j \in 1..Len(ai_response) : upper(ai_response[j].tag) # "REVIEW"

\* every index of every line either parser recognises is in range
EveryIndexInRange ==
    \A j \in 1..Len(ai_response) :
        Match(ai_response[j], LenientTags) => InRange(ai_response[j])

\* C27: for a text without a REVIEW line in which every index of every
\* recognised line is in range, parse_edit_decisions returns, and the list
\* it returns is the list _parse_ai_response returns for the same text and
\* transcript: same length, same order, same start, end, action, reason and
\* transcript_indices.
C27_StrictEqualsLenient ==
    (pc = "strict_done" /\ NoReviewLine /\ EveryIndexInRange) =>
        /\ Returned(ret)
        /\ LET lenient == parse_ai_response(ai_response, transcript).result
           IN /\ Len(ret.value) = Len(lenient)
              /\ \A k \in 1..Len(lenient) :
                    /\ ret.value[k].start = lenient[k].start
                    /\ ret.value[k].end = lenient[k].end
                    /\ ret.value[k].action = lenient[k].action
                    /\ ret.value[k].reason = lenient[k].reason
                    /\ ret.value[k].transcript_indices = lenient[k].transcript_indices

\* a text of three decisions in range, a KEEP among them and a REMOVE with
\* its reason, has been parsed by the strict parser
C27_Witness ==
    /\ pc = "strict_done"
    /\ NoReviewLine
    /\ EveryIndexInRange
    /\ Returned(ret)
    /\ Len(ret.value) = 3
    /\ \E k \in 1..3 : ret.value[k].action = KEEP
    /\ \E k \in 1..3 : ret.value[k].action = REMOVE /\ ret.value[k].reason = "x"

(***************************************************************************)
(* _load_transcript / _iter_srt_segments of edit_pipeline.py: the SRT file *)
(* is read line by line by a machine of the states "number", "timestamp"   *)
(* and "text".  A line is what the tests of the loop see of it after       *)
(* strip(): blank, digits only, starting with a well-formed                *)
(* "HH:MM:SS,mmm --> HH:MM:SS,mmm", or anything else ("words").  Times     *)
(* read from a file are in milliseconds, so that the milliseconds / 1000.0 *)
(* of _parse_srt_timestamp is exact; the text of a segment, the text lines *)
(* joined by "\n", is the sequence of the lines.                           *)
(***************************************************************************)
MaxBlocks == 3      \* most blocks in an SRT file

Stamp(h, m, s, ms) == [h |-> h, m |-> m, s |-> s, ms |-> ms]

NoStamp == Stamp(0, 0, 0, 0)

SrtLine(kind, text, from, to) == [kind |-> kind, text |-> text, from |-> from, to |-> to]

BlankSrtLine == SrtLine("blank", "", NoStamp, NoStamp)

NumberLine == SrtLine("digits", "7", NoStamp, NoStamp)

WordsLine == SrtLine("words", "Hello everyone", NoStamp, NoStamp)

DigitsLine == SrtLine("digits", "42", NoStamp, NoStamp)

StampLine(from, to) == SrtLine("timestamp", "HH:MM:SS,mmm --> HH:MM:SS,mmm", from, to)

MalformedStampLine == SrtLine("words", "00:00:01.000 -> 00:00:02.000", NoStamp, NoStamp)

\* a conversion that reads minutes, seconds and milliseconds only
parse_srt_timestamp_without_hours(ts) == (ts.m * 60 + ts.s) * 1000 + ts.ms

\* hours * 3600 + minutes * 60 + seconds + milliseconds / 1000.0
parse_srt_timestamp(ts) == (ts.h * 3600 + ts.m * 60 + ts.s) * 1000 + ts.ms

RECURSIVE iter_srt_loop(_, _, _, _, _, _)
\* the loop `for line in f` from the lines that are left, then the code
\* after the loop; yielded is what has been yielded so far
iter_srt_loop(lines, state, current_start, current_end, text_lines, yielded) ==
    IF lines = <<>>
    THEN IF state = "text" /\ text_lines # <<>>
         THEN Append(yielded, TranscriptSegment(current_start, current_end, text_lines))
         ELSE yielded
    ELSE LET line == Head(lines)
             rest == Tail(lines)
         IN CASE state = "number" ->
                   iter_srt_loop(rest,
                                 IF line.kind = "digits" THEN "timestamp" ELSE "number",
                                 current_start, current_end, text_lines, yielded)
              [] state = "timestamp" ->
                   IF line.kind = "timestamp"
                   THEN iter_srt_loop(rest, "text", parse_srt_timestamp(line.from),
                                      parse_srt_timestamp(line.to), <<>>, yielded)
                   ELSE iter_srt_loop(rest, "number", current_start, current_end,
                                      text_lines, yielded)
              [] state = "text" ->
                   IF line.kind = "blank"
                   THEN iter_srt_loop(rest, "number", current_start, current_end,
                           text_lines,
                           IF text_lines # <<>>
                           THEN Append(yielded, TranscriptSegment(current_start,
                                                   current_end, text_lines))
                           ELSE yielded)
                   ELSE iter_srt_loop(rest, "text", current_start, current_end,
                                      Append(text_lines, line.text), yielded)

\* list(_iter_srt_segments(transcript_path)) for a file that exists
iter_srt_segments(lines) == iter_srt_loop(lines, "number", 0, 0, <<>>, <<>>)

\* the text lines of a block: words, a digits-only line, a line that reads
\* as a timestamp line
StampInText == StampLine(Stamp(0, 0, 9, 0), Stamp(0, 0, 10, 0))

TextBodies ==
    {<<WordsLine>>, <<WordsLine, WordsLine>>, <<DigitsLine>>, <<DigitsLine, WordsLine>>,
     <<StampInText, WordsLine>>, <<DigitsLine, StampInText, WordsLine>>}

\* a block: well-formed timestamp line or not, and its text lines
SrtBlocks == [ok : BOOLEAN, body : TextBodies]

\* the timestamps of the i-th block of a file
BlockFrom(i) == Stamp(i - 1, 0, i, 0)

BlockTo(i) == Stamp(i - 1, 1, 0, 500)

Blanks(n) == [j \in 1..n |-> BlankSrtLine]

\* the lines of the i-th block, followed by n blank lines
BlockLines(blocks, i, n) ==
    <<NumberLine,
      IF blocks[i].ok THEN StampLine(BlockFrom(i), BlockTo(i)) ELSE MalformedStampLine>>
    \o blocks[i].body \o Blanks(n)

RECURSIVE BlocksUpTo(_, _, _, _)
\* the first i blocks of the file, gap blank lines between two blocks and
\* final blank lines after the last
BlocksUpTo(blocks, i, gap, final) ==
    IF i = 0 THEN <<>>
    ELSE BlocksUpTo(blocks, i - 1, gap, final)
            \o BlockLines(blocks, i, IF i = Len(blocks) THEN final ELSE gap)

FileOf(leading, blocks, gap, final) ==
    Blanks(leading) \o BlocksUpTo(blocks, Len(blocks), gap, final)

InitSrt ==
    /\ pc = "load_transcript"
    /\ srt_path = "transcript.srt"
    /\ srt_exists \in BOOLEAN
    /\ subtitles \in IF srt_exists THEN SeqsUpTo(SrtBlocks, MaxBlocks) ELSE {<<>>}
    /\ \E leading \in 0..1, gap \in 1..2, final \in 0..2 :
          srt_lines = IF srt_exists THEN FileOf(leading, subtitles, gap, final) ELSE <<>>
    /\ edl = NoEDL
    /\ edl_exists = TRUE
    /\ srt_output = NoSrtOutput
    /\ temp_audio = FALSE
    /\ temp_audio_path = None
    /\ subtitle_format = "srt"
    /\ caller = None
    /\ NoCutting
    /\ NoAnalysis
    /\ ret = Running

\* segments = _load_transcript(transcript_path)
LoadTranscript ==
    /\ pc = "load_transcript"
    /\ IF srt_exists
       THEN /\ transcript' = iter_srt_segments(srt_lines)
            /\ ret' = Return(Len(transcript'))
       ELSE /\ transcript' = transcript
            /\ ret' = Raise(Exc("FileNotFoundError", "Transcript file not found", None))
    /\ pc' = "loaded"
    /\ UNCHANGED <<edl, cut_vars, file_vars>>
    /\ UNCHANGED <<json_str, ai_response, duration, segments, warnings>>

NextSrt == LoadTranscript

SpecSrt == InitSrt /\ [][NextSrt]_vars

\* the blocks of the file with a well-formed timestamp line, by position
WellFormedBlocks == {i \in 1..Len(subtitles) : subtitles[i].ok}

\* the number of well-formed blocks among the first i
Rank(i) == Cardinality({j \in WellFormedBlocks : j <= i})

\* one segment per well-formed block, in order: the times of its timestamp
\* line and its text lines
OneSegmentPerWellFormedBlock ==
    /\ Len(transcript) = Cardinality(WellFormedBlocks)
    /\ \A i \in WellFormedBlocks :
          /\ transcript[Rank(i)].start
                = 1000 * (3600 * BlockFrom(i).h + 60 * BlockFrom(i).m + BlockFrom(i).s)
                    + BlockFrom(i).ms
          /\ transcript[Rank(i)].end
                = 1000 * (3600 * BlockTo(i).h + 60 * BlockTo(i).m + BlockTo(i).s)
                    + BlockTo(i).ms
          /\ transcript[Rank(i)].text
                = [j \in 1..Len(subtitles[i].body) |-> subtitles[i].body[j].text]

\* C28 as stated: a file of blocks gives exactly one segment per block with
\* a well-formed timestamp line, in order, and a block with a malformed
\* timestamp line gives nothing, whatever its text lines are.
C28_OneSegmentPerBlock ==
    (pc = "loaded" /\ Returned(ret)) => OneSegmentPerWellFormedBlock

\* no block with a malformed timestamp line has a text line that reads as
\* a timestamp line
NoStampInMalformedBlock ==
    \A i \in 1..Len(subtitles) :
        subtitles[i].ok \/ \A j \in 1..Len(subtitles[i].body) :
                              subtitles[i].body[j].kind # "timestamp"

\* C28: for a file of blocks (number line, timestamp line, one or more text
\* lines) separated by one or more blank lines, with or without blank lines
\* in front and at the end, in which no block with a malformed timestamp
\* line has a text line that reads as a timestamp line, the parser yields
\* exactly one segment per block with a well-formed timestamp line, in
\* order, with the times of the timestamp line and the text lines joined;
\* a block with a malformed timestamp line yields nothing and the blocks
\* after it are still yielded.
C28_OneSegmentPerBlockWithPlainText ==
    (pc = "loaded" /\ Returned(ret) /\ NoStampInMalformedBlock)
        => OneSegmentPerWellFormedBlock

\* a file without a final blank line whose second block has a malformed
\* timestamp line has been read: the first and the third block are yielded
C28_Witness ==
    /\ pc = "loaded"
    /\ Len(subtitles) = 3
    /\ subtitles[1].ok /\ ~subtitles[2].ok /\ subtitles[3].ok
    /\ subtitles[2].body = <<DigitsLine, WordsLine>>
    /\ srt_lines[Len(srt_lines)] # BlankSrtLine
    /\ Len(transcript) = 2
    /\ transcript[2].start = parse_srt_timestamp(BlockFrom(3))
    /\ transcript[2].text = <<"Hello everyone", "Hello everyone">>

(***************************************************************************)
(* The segments the parsers build, as segments.                            *)
(***************************************************************************)
\* a segment that names at least one transcript segment and has start < end
WellFormedSegment(seg) == seg.transcript_indices # <<>> /\ seg.start < seg.end

\* C29: every segment the strict parser returns and every segment the
\* lenient parser returns has a non-empty transcript_indices list and
\* start < end, the transcripts having segments with start < end in time
\* order, for every recognised line in range, ranges N-M with N > M included.
C29_ParsedSegmentsWellFormed ==
    /\ (pc = "strict_done" /\ Returned(ret)) =>
          \A k \in 1..Len(ret.value) : WellFormedSegment(ret.value[k])
    /\ pc = "create_edl" =>
          \A k \in 1..Len(segments) : WellFormedSegment(segments[k])

(***************************************************************************)
(* The temporary output file of cut_video.                                 *)
(***************************************************************************)
\* C30: when cut_video, called without an output path, raises after the
\* validation, the file it made with tempfile.mkstemp no longer exists.
C30_FailedCutLeavesNoFile == (pc = "done" /\ Raised(ret)) => tmp_output = FALSE

====
